---- MODULE Spec2Model ----
(***************************************************************************)
(* Erudify vocabulary study engine: the interval engine                    *)
(* (src/src/lib/spaced-repetition.ts), the progress updates, the candidate *)
(* scorer and the exercise selector (lib/exercises.ts, the version held in *)
(* src/unnamed/part_014).                                                  *)
(*                                                                         *)
(* Numbers.  The source computes with JavaScript numbers: timestamps are   *)
(* integer milliseconds, intervals are seconds and become fractional       *)
(* (elapsed * 1.05, elapsed / 1000 * 5).  The model holds every timestamp  *)
(* and every interval in one unit of 25 ms = 1/40 s, as an exact integer,  *)
(* so that "seconds * 1000" and "ms / 1000" are changes of unit that leave *)
(* the number as it is.  Clock readings are multiples of 500 ms (ClockStep *)
(* units), which makes elapsed * 1.05 and elapsed * 5 exact in this unit.  *)
(* Floating-point rounding error is not modelled.                          *)
(***************************************************************************)
EXTENDS Integers, Sequences, FiniteSets, TLC

VARIABLES
    exercises,        \* the corpus: Exercise[] (read-only after load)
    orderedWordList,  \* the curriculum order: string[] (read-only after load)
    progress,         \* StudentProgress: words, history, exerciseLastSeen, ...
    now,              \* the wall clock (Date.now())
    lastUpdate,       \* the latest word update: its inputs and returned change
    selection,        \* the value returned by the latest selectNextExercise
    scoring,          \* the value returned by the latest getExerciseCandidates
    nUpdates,         \* number of updates or completions so far (bounds the run)
    nTicks,           \* number of clock advances so far (bounds the run)
    input             \* the exercise input: ExerciseInputState and its last call

vars == <<exercises, orderedWordList, progress, now, lastUpdate, selection,
          scoring, nUpdates, nTicks, input>>

----------------------------------------------------------------------------
(* Units *)

\* 1.05 = EarlyNum / EarlyDen
EarlyNum == 21
EarlyDen == 20

\* one model unit is 1/40 s (25 ms)
UnitsPerSecond == 2 * EarlyDen

\* clock readings are multiples of 500 ms
ClockStep == EarlyDen

Seconds(n) == n * UnitsPerSecond
Days(n) == Seconds(n * 24 * 60 * 60)

Max2(a, b) == IF a >= b THEN a ELSE b
Min2(a, b) == IF a <= b THEN a ELSE b

\* Math.round of a number of seconds held in model units: the nearest whole
\* second, halves going up
RoundSeconds(x) ==
    ((x + UnitsPerSecond \div 2) \div UnitsPerSecond) * UnitsPerSecond

----------------------------------------------------------------------------
(* Interval engine: spaced-repetition.ts *)

MIN_INTERVAL_SECONDS == 30
MAX_INTERVAL_SECONDS == 365 * 24 * 60 * 60
GOOD_REVIEW_MULTIPLIER == 5
FIRST_TIME_SUCCESS_INTERVAL_SECONDS == 7 * 24 * 60 * 60

\* DEFAULT_CONFIG, the intervals in model units
minIntervalSeconds == Seconds(MIN_INTERVAL_SECONDS)
maxIntervalSeconds == Seconds(MAX_INTERVAL_SECONDS)
firstTimeSuccessIntervalSeconds == Seconds(FIRST_TIME_SUCCESS_INTERVAL_SECONDS)

\* x * earlyReviewMultiplier; exact because x, a difference of clock
\* readings, is a multiple of ClockStep = EarlyDen
TimesEarlyMultiplier(x) == (x \div EarlyDen) * EarlyNum

\* x * goodReviewMultiplier
TimesGoodMultiplier(x) == x * GOOD_REVIEW_MULTIPLIER

\* "state: WordState | null"
NoState == [none |-> TRUE]

\* clampInterval that bounds the interval from above only
clampInterval_NoMinimum(interval) == Min2(interval, maxIntervalSeconds)

clampInterval(interval) ==
    Max2(minIntervalSeconds, Min2(interval, maxIntervalSeconds))

\* calculateNewInterval with the first-time interval taken to be the minimum
\* interval (as the 30 s initial interval of the earlier engine)
calculateNewInterval_FirstTimeMin(state, completedAt) ==
    IF state = NoState
    THEN [newInterval |-> minIntervalSeconds,
          consecutiveSuccesses |-> 1,
          wasEarlyReview |-> FALSE]
    ELSE LET actualElapsedSeconds == completedAt - state.lastReviewed
             isEarly == completedAt < state.lastReviewed + state.intervalSeconds
             newInterval ==
                 IF isEarly
                 THEN clampInterval(TimesEarlyMultiplier(actualElapsedSeconds))
                 ELSE clampInterval(TimesGoodMultiplier(actualElapsedSeconds))
         IN  [newInterval |-> newInterval,
              consecutiveSuccesses |-> state.consecutiveSuccesses + 1,
              wasEarlyReview |-> isEarly]

\* calculateNewInterval that counts a success only when the review was due
calculateNewInterval_EarlyKeepsCount(state, completedAt) ==
    IF state = NoState
    THEN [newInterval |-> firstTimeSuccessIntervalSeconds,
          consecutiveSuccesses |-> 1,
          wasEarlyReview |-> FALSE]
    ELSE LET actualElapsedSeconds == completedAt - state.lastReviewed
             isEarly == completedAt < state.lastReviewed + state.intervalSeconds
             newInterval ==
                 IF isEarly
                 THEN clampInterval(TimesEarlyMultiplier(actualElapsedSeconds))
                 ELSE clampInterval(TimesGoodMultiplier(actualElapsedSeconds))
         IN  [newInterval |-> newInterval,
              consecutiveSuccesses |->
                  IF isEarly THEN state.consecutiveSuccesses
                  ELSE state.consecutiveSuccesses + 1,
              wasEarlyReview |-> isEarly]

\* calculateNewInterval that takes a review at the due instant to be early
calculateNewInterval_EarlyAtDue(state, completedAt) ==
    IF state = NoState
    THEN [newInterval |-> firstTimeSuccessIntervalSeconds,
          consecutiveSuccesses |-> 1,
          wasEarlyReview |-> FALSE]
    ELSE LET actualElapsedSeconds == completedAt - state.lastReviewed
             isEarly == completedAt <= state.lastReviewed + state.intervalSeconds
             newInterval ==
                 IF isEarly
                 THEN clampInterval(TimesEarlyMultiplier(actualElapsedSeconds))
                 ELSE clampInterval(TimesGoodMultiplier(actualElapsedSeconds))
         IN  [newInterval |-> newInterval,
              consecutiveSuccesses |-> state.consecutiveSuccesses + 1,
              wasEarlyReview |-> isEarly]

calculateNewInterval(state, completedAt) ==
    IF state = NoState
    THEN [newInterval |-> firstTimeSuccessIntervalSeconds,
          consecutiveSuccesses |-> 1,
          wasEarlyReview |-> FALSE]
    ELSE LET actualElapsedSeconds == completedAt - state.lastReviewed
             isEarly == completedAt < state.lastReviewed + state.intervalSeconds
             newInterval ==
                 IF isEarly
                 THEN clampInterval(TimesEarlyMultiplier(actualElapsedSeconds))
                 ELSE clampInterval(TimesGoodMultiplier(actualElapsedSeconds))
         IN  [newInterval |-> newInterval,
              consecutiveSuccesses |-> state.consecutiveSuccesses + 1,
              wasEarlyReview |-> isEarly]

\* calculateFailureInterval that leaves the run of successes standing
calculateFailureInterval_KeepsStreak ==
    [newInterval |-> minIntervalSeconds, consecutiveSuccesses |-> 1]

calculateFailureInterval ==
    [newInterval |-> minIntervalSeconds, consecutiveSuccesses |-> 0]

\* oldIntervalSeconds: null
Null == -1

updateWordStateSuccess(word, pinyin, existingState, completedAt) ==
    LET r == calculateNewInterval(existingState, completedAt)
    IN  [state |-> [intervalSeconds |-> r.newInterval,
                    lastReviewed |-> completedAt,
                    consecutiveSuccesses |-> r.consecutiveSuccesses],
         change |-> [word |-> word,
                     pinyin |-> pinyin,
                     oldIntervalSeconds |->
                         IF existingState = NoState THEN Null
                         ELSE existingState.intervalSeconds,
                     newIntervalSeconds |-> r.newInterval,
                     nextReview |-> completedAt + r.newInterval,
                     wasEarlyReview |-> r.wasEarlyReview,
                     wasFailure |-> FALSE]]

\* updateWordStateFailure whose change record is not flagged as a failure
updateWordStateFailure_NotFlagged(word, pinyin, completedAt) ==
    LET r == calculateFailureInterval
    IN  [state |-> [intervalSeconds |-> r.newInterval,
                    lastReviewed |-> completedAt,
                    consecutiveSuccesses |-> r.consecutiveSuccesses],
         change |-> [word |-> word,
                     pinyin |-> pinyin,
                     oldIntervalSeconds |-> Null,
                     newIntervalSeconds |-> r.newInterval,
                     nextReview |-> completedAt + r.newInterval,
                     wasEarlyReview |-> FALSE,
                     wasFailure |-> FALSE]]

updateWordStateFailure(word, pinyin, completedAt) ==
    LET r == calculateFailureInterval
    IN  [state |-> [intervalSeconds |-> r.newInterval,
                    lastReviewed |-> completedAt,
                    consecutiveSuccesses |-> r.consecutiveSuccesses],
         change |-> [word |-> word,
                     pinyin |-> pinyin,
                     oldIntervalSeconds |-> Null,
                     newIntervalSeconds |-> r.newInterval,
                     nextReview |-> completedAt + r.newInterval,
                     wasEarlyReview |-> FALSE,
                     wasFailure |-> TRUE]]

----------------------------------------------------------------------------
(* Progress store: lib/exercises.ts (part_014) *)

\* progress.words is a JavaScript object keyed by word.  Its keys (none of
\* them integer-like) enumerate in insertion order, which Object.values
\* exposes to the selector, so the model holds it as a sequence of
\* WordProgress records in insertion order with at most one record per word.
HasWord(words, w) == \E i \in 1..Len(words) : words[i].word = w

WordEntry(words, w) == words[CHOOSE i \in 1..Len(words) : words[i].word = w]

\* { [word]: entry } without the spread of the other keys
PutWord_DropsOthers(words, entry) == <<entry>>

\* { ...words, [word]: entry }: an existing key keeps its place, a new key
\* goes last
PutWord(words, entry) ==
    IF HasWord(words, entry.word)
    THEN [i \in 1..Len(words) |->
             IF words[i].word = entry.word THEN entry ELSE words[i]]
    ELSE Append(words, entry)

\* getExerciseWords that keeps the segments without pinyin
getExerciseWords_AllSegments(exercise) ==
    [i \in 1..Len(exercise.segments) |-> exercise.segments[i].chinese]

getExerciseWords(exercise) ==
    LET IsWord(seg) == seg.pinyin # ""
        kept == SelectSeq(exercise.segments, IsWord)
    IN  [i \in 1..Len(kept) |-> kept[i].chinese]

getPinyinForWord(exercise, word) ==
    IF \E i \in 1..Len(exercise.segments) : exercise.segments[i].chinese = word
    THEN LET i == CHOOSE i \in 1..Len(exercise.segments) :
                      /\ exercise.segments[i].chinese = word
                      /\ \A j \in 1..(i - 1) : exercise.segments[j].chinese # word
         IN  exercise.segments[i].pinyin
    ELSE ""

\* updateWordSuccess that schedules the next review with the interval the
\* word had before the update
updateWordSuccess_StaleInterval(word, pinyin, prog, completedAt) ==
    LET existingState ==
            IF HasWord(prog.words, word)
            THEN LET existing == WordEntry(prog.words, word)
                 IN  [intervalSeconds |-> existing.intervalSeconds,
                      lastReviewed |-> existing.lastReviewed,
                      consecutiveSuccesses |-> existing.consecutiveSuccesses]
            ELSE NoState
        r == updateWordStateSuccess(word, pinyin, existingState, completedAt)
        nextReview ==
            completedAt + (IF existingState = NoState THEN r.state.intervalSeconds
                           ELSE existingState.intervalSeconds)
    IN  [progress |->
             [prog EXCEPT !.words =
                 PutWord(prog.words,
                         [word |-> word,
                          lastReviewed |-> r.state.lastReviewed,
                          nextReview |-> nextReview,
                          intervalSeconds |-> r.state.intervalSeconds,
                          consecutiveSuccesses |-> r.state.consecutiveSuccesses])],
         change |-> [r.change EXCEPT !.nextReview = nextReview]]

updateWordSuccess(word, pinyin, prog, completedAt) ==
    LET existingState ==
            IF HasWord(prog.words, word)
            THEN LET existing == WordEntry(prog.words, word)
                 IN  [intervalSeconds |-> existing.intervalSeconds,
                      lastReviewed |-> existing.lastReviewed,
                      consecutiveSuccesses |-> existing.consecutiveSuccesses]
            ELSE NoState
        r == updateWordStateSuccess(word, pinyin, existingState, completedAt)
        nextReview == completedAt + r.state.intervalSeconds
    IN  [progress |->
             [prog EXCEPT !.words =
                 PutWord(prog.words,
                         [word |-> word,
                          lastReviewed |-> r.state.lastReviewed,
                          nextReview |-> nextReview,
                          intervalSeconds |-> r.state.intervalSeconds,
                          consecutiveSuccesses |-> r.state.consecutiveSuccesses])],
         change |-> [r.change EXCEPT !.nextReview = nextReview]]

\* updateWordFailure that leaves a word without an entry without one
updateWordFailure_NoCreate(word, pinyin, prog, completedAt) ==
    LET r == updateWordStateFailure(word, pinyin, completedAt)
        nextReview == completedAt + r.state.intervalSeconds
    IN  [progress |->
             IF HasWord(prog.words, word)
             THEN [prog EXCEPT !.words =
                      PutWord(prog.words,
                              [word |-> word,
                               lastReviewed |-> r.state.lastReviewed,
                               nextReview |-> nextReview,
                               intervalSeconds |-> r.state.intervalSeconds,
                               consecutiveSuccesses |-> r.state.consecutiveSuccesses])]
             ELSE prog,
         change |-> [r.change EXCEPT !.nextReview = nextReview]]

\* updateWordFailure that schedules the next review at the completion time
updateWordFailure_DueAtOnce(word, pinyin, prog, completedAt) ==
    LET r == updateWordStateFailure(word, pinyin, completedAt)
        nextReview == completedAt
    IN  [progress |->
             [prog EXCEPT !.words =
                 PutWord(prog.words,
                         [word |-> word,
                          lastReviewed |-> r.state.lastReviewed,
                          nextReview |-> nextReview,
                          intervalSeconds |-> r.state.intervalSeconds,
                          consecutiveSuccesses |-> r.state.consecutiveSuccesses])],
         change |-> [r.change EXCEPT !.nextReview = nextReview]]

updateWordFailure(word, pinyin, prog, completedAt) ==
    LET r == updateWordStateFailure(word, pinyin, completedAt)
        nextReview == completedAt + r.state.intervalSeconds
    IN  [progress |->
             [prog EXCEPT !.words =
                 PutWord(prog.words,
                         [word |-> word,
                          lastReviewed |-> r.state.lastReviewed,
                          nextReview |-> nextReview,
                          intervalSeconds |-> r.state.intervalSeconds,
                          consecutiveSuccesses |-> r.state.consecutiveSuccesses])],
         change |-> [r.change EXCEPT !.nextReview = nextReview]]

\* segments.map((s) => s.chinese).join("")
RECURSIVE joinChinese(_)
joinChinese(segments) ==
    IF segments = <<>> THEN ""
    ELSE Head(segments).chinese \o joinChinese(Tail(segments))

\* pinyins.join(" ")
RECURSIVE joinWithSpace(_)
joinWithSpace(pinyins) ==
    IF pinyins = <<>> THEN ""
    ELSE IF Len(pinyins) = 1 THEN Head(pinyins)
    ELSE Head(pinyins) \o " " \o joinWithSpace(Tail(pinyins))

\* segments.map((s) => s.pinyin).filter((p) => p).join(" ")
joinPinyin(segments) ==
    LET NonEmpty(p) == p # ""
    IN  joinWithSpace(SelectSeq([i \in 1..Len(segments) |-> segments[i].pinyin],
                                NonEmpty))

\* addExerciseToHistory that keeps the latest entry only
addExerciseToHistory_KeepsLatest(exerciseIndex, success, exercise, wordChanges, prog, historyNow) ==
    [prog EXCEPT
        !.history = << [exerciseIndex |-> exerciseIndex,
                        completedAt |-> historyNow,
                        success |-> success,
                        chinese |-> joinChinese(exercise.segments),
                        pinyin |-> joinPinyin(exercise.segments),
                        english |-> exercise.english,
                        wordChanges |-> wordChanges] >>,
        !.exerciseLastSeen = (exerciseIndex :> historyNow) @@ prog.exerciseLastSeen]

\* addExerciseToHistory reads the clock itself (historyNow = Date.now()) for
\* the entry's completedAt and for exerciseLastSeen[exerciseIndex]
addExerciseToHistory(exerciseIndex, success, exercise, wordChanges, prog, historyNow) ==
    [prog EXCEPT
        !.history = Append(prog.history,
                           [exerciseIndex |-> exerciseIndex,
                            completedAt |-> historyNow,
                            success |-> success,
                            chinese |-> joinChinese(exercise.segments),
                            pinyin |-> joinPinyin(exercise.segments),
                            english |-> exercise.english,
                            wordChanges |-> wordChanges]),
        !.exerciseLastSeen = (exerciseIndex :> historyNow) @@ prog.exerciseLastSeen]

----------------------------------------------------------------------------
(* Completion of the displayed exercise: app/read/page.tsx, checkAndAdvance *)

\* the update loop with the hint looked up at the position after the word's
RECURSIVE updateExerciseWords_HintShifted(_, _, _, _, _, _, _)
updateExerciseWords_HintShifted(words, i, hintedWordIndices, exercise, newProgress, wordChanges, completedAt) ==
    IF i >= Len(words)
    THEN [progress |-> newProgress, wordChanges |-> wordChanges]
    ELSE LET word == words[i + 1]
             pinyin == getPinyinForWord(exercise, word)
             result == IF (i + 1) \in hintedWordIndices
                       THEN updateWordFailure(word, pinyin, newProgress, completedAt)
                       ELSE updateWordSuccess(word, pinyin, newProgress, completedAt)
         IN  updateExerciseWords_HintShifted(words, i + 1, hintedWordIndices,
                 exercise, result.progress, Append(wordChanges, result.change),
                 completedAt)

\* for (let i = 0; i < words.length; i++): the word at position i gets a
\* failure update when i is in hintedWordIndices and a success update
\* otherwise, each on the progress the previous update returned; the change
\* of every update is pushed to wordChanges
RECURSIVE updateExerciseWords(_, _, _, _, _, _, _)
updateExerciseWords(words, i, hintedWordIndices, exercise, newProgress, wordChanges, completedAt) ==
    IF i >= Len(words)
    THEN [progress |-> newProgress, wordChanges |-> wordChanges]
    ELSE LET word == words[i + 1]
             pinyin == getPinyinForWord(exercise, word)
             result == IF i \in hintedWordIndices
                       THEN updateWordFailure(word, pinyin, newProgress, completedAt)
                       ELSE updateWordSuccess(word, pinyin, newProgress, completedAt)
         IN  updateExerciseWords(words, i + 1, hintedWordIndices, exercise,
                                 result.progress,
                                 Append(wordChanges, result.change), completedAt)

\* the completion branch of checkAndAdvance: completedAt is the clock
\* reading taken there, historyNow the one addExerciseToHistory takes
completeExercise(currentExercise, currentIndex, hintedWordIndices, prog, completedAt, historyNow) ==
    LET r == updateExerciseWords(getExerciseWords(currentExercise), 0,
                                 hintedWordIndices, currentExercise, prog,
                                 <<>>, completedAt)
    IN  [updated |-> r.progress,
         wordChanges |-> r.wordChanges,
         progress |-> addExerciseToHistory(currentIndex, hintedWordIndices = {},
                                           currentExercise, r.wordChanges,
                                           r.progress, historyNow)]

----------------------------------------------------------------------------
(* Candidate scorer and exercise selector: lib/exercises.ts (part_014) *)

\* The words of the model's corpora stand for Chinese words; HanChars gives
\* the number of Han characters of each (punctuation has none), which is
\* what sentence.match(/\p{Script=Han}/gu) counts.
HanChars == [ni |-> 1, hao |-> 1, xue |-> 1, shi |-> 1, nimen |-> 2]

HanCount(chinese) ==
    IF chinese \in DOMAIN HanChars THEN HanChars[chinese] ELSE 0

RECURSIVE SumSeq(_)
SumSeq(s) == IF s = <<>> THEN 0 ELSE Head(s) + SumSeq(Tail(s))

InSeq(s, x) == \E i \in 1..Len(s) : s[i] = x

exerciseContainsWord(exercise, word) == InSeq(getExerciseWords(exercise), word)

\* getNewWords that takes every word of the exercise to be new
getNewWords_All(exercise, prog) == getExerciseWords(exercise)

getNewWords(exercise, prog) ==
    LET IsNew(w) == ~HasWord(prog.words, w)
    IN  SelectSeq(getExerciseWords(exercise), IsNew)

\* new Map(orderedWordList.map((w, index) => [w, index])).get(w): the
\* 0-based position of w, the last one when w is listed twice
InOrderedList(list, w) == InSeq(list, w)

orderedWordIndex(list, w) ==
    (CHOOSE i \in 1..Len(list) :
        /\ list[i] = w
        /\ \A j \in (i + 1)..Len(list) : list[j] # w) - 1

\* progress.exerciseLastSeen[index] || 0
lastSeenOf(prog, index) ==
    IF index \in DOMAIN prog.exerciseLastSeen
    THEN prog.exerciseLastSeen[index]
    ELSE 0

\* isKnownWord that takes a word due exactly now to be known
isKnownWord_DueNowIsKnown(prog, w, scoreNow) ==
    HasWord(prog.words, w) /\ WordEntry(prog.words, w).nextReview >= scoreNow

\* Boolean(wp && wp.nextReview > now)
isKnownWord(prog, w, scoreNow) ==
    HasWord(prog.words, w) /\ WordEntry(prog.words, w).nextReview > scoreNow

\* wordStatuses[w]
wordStatus(prog, w, scoreNow) ==
    IF isKnownWord(prog, w, scoreNow) THEN "known"
    ELSE IF ~HasWord(prog.words, w) THEN "unknown"
    ELSE "review"

\* orderedWordIndex.get(w) ?? null
wordListIndexOrNull(list, w) ==
    IF InOrderedList(list, w) THEN orderedWordIndex(list, w) ELSE Null

\* the positions of the sentence's words at which the loop does not
\* "continue": the word is unknown or due
unknownOrReviewPositions(exerciseWords, prog, scoreNow) ==
    {i \in 1..Len(exerciseWords) : ~isKnownWord(prog, exerciseWords[i], scoreNow)}

\* notInListPositions that looks the word up in the list before it skips
\* the known words
notInListPositions_CountsKnown(exerciseWords, prog, list, scoreNow) ==
    {i \in 1..Len(exerciseWords) : ~InOrderedList(list, exerciseWords[i])}

\* the positions at which wordsNotInOrderedList is incremented
notInListPositions(exerciseWords, prog, list, scoreNow) ==
    {i \in unknownOrReviewPositions(exerciseWords, prog, scoreNow) :
        ~InOrderedList(list, exerciseWords[i])}

\* the score of exercises[index + 1] (index is the 0-based corpus position)
scoreExercise(exercise, index, prog, list, scoreNow) ==
    LET exerciseWords == getExerciseWords(exercise)
        open == unknownOrReviewPositions(exerciseWords, prog, scoreNow)
        unlisted == notInListPositions(exerciseWords, prog, list, scoreNow)
        listed == open \ unlisted
        wordSet == {exerciseWords[i] : i \in 1..Len(exerciseWords)}
        wordsNotInOrderedList == Cardinality(unlisted)
        unknownOrReviewWordCount == Cardinality(open)
        largestOrderedWordIndex ==
            IF listed = {} THEN -1
            ELSE CHOOSE m \in {orderedWordIndex(list, exerciseWords[i]) : i \in listed} :
                    \A i \in listed : orderedWordIndex(list, exerciseWords[i]) <= m
        chineseCharacterCount ==
            SumSeq([i \in 1..Len(exercise.segments) |->
                       HanCount(exercise.segments[i].chinese)])
        lastSeen == lastSeenOf(prog, index)
    IN  [exercise |-> exercise,
         index |-> index,
         score |->
            [wordsNotInOrderedList |-> wordsNotInOrderedList,
             unknownOrReviewWordCount |-> unknownOrReviewWordCount,
             hasBeenSeen |-> IF lastSeen > 0 THEN 1 ELSE 0,
             largestOrderedWordIndex |-> largestOrderedWordIndex,
             chineseCharacterCount |-> chineseCharacterCount],
         breakdown |->
            [wordStatuses |-> [w \in wordSet |-> wordStatus(prog, w, scoreNow)],
             orderedWordIndices |-> [w \in wordSet |-> wordListIndexOrNull(list, w)],
             wordsNotInOrderedList |-> wordsNotInOrderedList,
             unknownOrReviewWordCount |-> unknownOrReviewWordCount,
             largestOrderedWordIndex |-> largestOrderedWordIndex,
             chineseCharacterCount |-> chineseCharacterCount,
             lastSeen |-> lastSeen]]

\* the comparator with a shortcut that puts a never-completed exercise first
\* without looking at the other one
compareScored_UnseenFirst(a, b) ==
    IF a.score.wordsNotInOrderedList # b.score.wordsNotInOrderedList
    THEN a.score.wordsNotInOrderedList - b.score.wordsNotInOrderedList
    ELSE IF a.score.unknownOrReviewWordCount # b.score.unknownOrReviewWordCount
    THEN a.score.unknownOrReviewWordCount - b.score.unknownOrReviewWordCount
    ELSE IF a.score.hasBeenSeen = 0
    THEN -1
    ELSE IF a.score.largestOrderedWordIndex # b.score.largestOrderedWordIndex
    THEN a.score.largestOrderedWordIndex - b.score.largestOrderedWordIndex
    ELSE IF a.score.chineseCharacterCount # b.score.chineseCharacterCount
    THEN a.score.chineseCharacterCount - b.score.chineseCharacterCount
    ELSE a.breakdown.lastSeen - b.breakdown.lastSeen

\* the comparator without the hasBeenSeen key (the four-key score of the
\* earlier scorer)
compareScored_NoSeenKey(a, b) ==
    IF a.score.wordsNotInOrderedList # b.score.wordsNotInOrderedList
    THEN a.score.wordsNotInOrderedList - b.score.wordsNotInOrderedList
    ELSE IF a.score.unknownOrReviewWordCount # b.score.unknownOrReviewWordCount
    THEN a.score.unknownOrReviewWordCount - b.score.unknownOrReviewWordCount
    ELSE IF a.score.largestOrderedWordIndex # b.score.largestOrderedWordIndex
    THEN a.score.largestOrderedWordIndex - b.score.largestOrderedWordIndex
    ELSE IF a.score.chineseCharacterCount # b.score.chineseCharacterCount
    THEN a.score.chineseCharacterCount - b.score.chineseCharacterCount
    ELSE a.breakdown.lastSeen - b.breakdown.lastSeen

\* the comparator of scored.sort
compareScored(a, b) ==
    IF a.score.wordsNotInOrderedList # b.score.wordsNotInOrderedList
    THEN a.score.wordsNotInOrderedList - b.score.wordsNotInOrderedList
    ELSE IF a.score.unknownOrReviewWordCount # b.score.unknownOrReviewWordCount
    THEN a.score.unknownOrReviewWordCount - b.score.unknownOrReviewWordCount
    ELSE IF a.score.hasBeenSeen # b.score.hasBeenSeen
    THEN a.score.hasBeenSeen - b.score.hasBeenSeen
    ELSE IF a.score.largestOrderedWordIndex # b.score.largestOrderedWordIndex
    THEN a.score.largestOrderedWordIndex - b.score.largestOrderedWordIndex
    ELSE IF a.score.chineseCharacterCount # b.score.chineseCharacterCount
    THEN a.score.chineseCharacterCount - b.score.chineseCharacterCount
    ELSE a.breakdown.lastSeen - b.breakdown.lastSeen

\* Array.prototype.sort, a stable sort.  cmp[i][j] is the comparator's value
\* on s[i], s[j].  For a comparator that is a consistent ordering the result
\* is the one sequence in which each element stands after those that compare
\* smaller and after the earlier ones that compare equal.
StableSort(s, cmp) ==
    LET n == Len(s)
        Before(i, j) == cmp[i][j] < 0 \/ (cmp[i][j] = 0 /\ i < j)
        rank(i) == Cardinality({j \in 1..n : j # i /\ Before(j, i)})
    IN  [r \in 1..n |-> s[CHOOSE i \in 1..n : rank(i) = r - 1]]

\* scored.sort((a, b) => ...)
sortScored(scored) ==
    StableSort(scored,
               [i \in 1..Len(scored) |->
                   [j \in 1..Len(scored) |-> compareScored(scored[i], scored[j])]])

\* candidateExercises.map(({ exercise, index }) => ...)
RECURSIVE scoreAll(_, _, _, _)
scoreAll(candidateExercises, prog, list, scoreNow) ==
    IF candidateExercises = <<>> THEN <<>>
    ELSE << scoreExercise(Head(candidateExercises).exercise,
                          Head(candidateExercises).index, prog, list, scoreNow) >>
         \o scoreAll(Tail(candidateExercises), prog, list, scoreNow)

\* getExerciseCandidates that numbers the exercises from 1
getExerciseCandidates_OneBased(word, exs, prog, list, scoreNow) ==
    LET ContainsWord(c) == exerciseContainsWord(c.exercise, word)
        candidateExercises ==
            SelectSeq([x \in 1..Len(exs) |-> [exercise |-> exs[x], index |-> x]],
                      ContainsWord)
    IN  sortScored(scoreAll(candidateExercises, prog, list, scoreNow))

getExerciseCandidates(word, exs, prog, list, scoreNow) ==
    LET ContainsWord(c) == exerciseContainsWord(c.exercise, word)
        candidateExercises ==
            SelectSeq([x \in 1..Len(exs) |-> [exercise |-> exs[x], index |-> x - 1]],
                      ContainsWord)
    IN  sortScored(scoreAll(candidateExercises, prog, list, scoreNow))

\* "| null": nothing to select
NullSelection == [isNull |-> TRUE]

\* { exercise, index, targetWord }
Selected(scoredExercise, targetWord) ==
    [isNull |-> FALSE,
     exercise |-> scoredExercise.exercise,
     index |-> scoredExercise.index,
     hasTargetWord |-> TRUE,
     targetWord |-> targetWord]

\* FirstExercise that names the first word of the first exercise as target
FirstExercise_WithTarget(exs) ==
    [isNull |-> FALSE,
     exercise |-> exs[1],
     index |-> 0,
     hasTargetWord |-> TRUE,
     targetWord |-> exs[1].segments[1].chinese]

\* { exercise: exercises[0], index: 0 }
FirstExercise(exs) ==
    [isNull |-> FALSE,
     exercise |-> exs[1],
     index |-> 0,
     hasTargetWord |-> FALSE,
     targetWord |-> ""]

\* selectNewExercise that gives up with null when no sentence holds a new
\* word, instead of returning the first exercise
selectNewExercise_NullWhenNothingNew(exs, prog, list, scoreNow) ==
    LET listHits == {i \in 1..Len(list) :
                        /\ ~HasWord(prog.words, list[i])
                        /\ Len(getExerciseCandidates(list[i], exs, prog, list, scoreNow)) > 0}
        newHits == {x \in 1..Len(exs) :
                       /\ Len(getNewWords(exs[x], prog)) > 0
                       /\ Len(getExerciseCandidates(getNewWords(exs[x], prog)[1],
                                                    exs, prog, list, scoreNow)) > 0}
    IN  IF listHits # {}
        THEN LET i == CHOOSE i \in listHits : \A j \in listHits : i <= j
             IN  Selected(getExerciseCandidates(list[i], exs, prog, list, scoreNow)[1],
                          list[i])
        ELSE IF newHits # {}
        THEN LET x == CHOOSE x \in newHits : \A y \in newHits : x <= y
                 w == getNewWords(exs[x], prog)[1]
             IN  Selected(getExerciseCandidates(w, exs, prog, list, scoreNow)[1], w)
        ELSE NullSelection

\* selectNewExercise that walks the ordered list without asking whether the
\* word has progress
selectNewExercise_IgnoresProgress(exs, prog, list, scoreNow) ==
    LET listHits == {i \in 1..Len(list) :
                        Len(getExerciseCandidates(list[i], exs, prog, list, scoreNow)) > 0}
        newHits == {x \in 1..Len(exs) :
                       /\ Len(getNewWords(exs[x], prog)) > 0
                       /\ Len(getExerciseCandidates(getNewWords(exs[x], prog)[1],
                                                    exs, prog, list, scoreNow)) > 0}
    IN  IF listHits # {}
        THEN LET i == CHOOSE i \in listHits : \A j \in listHits : i <= j
             IN  Selected(getExerciseCandidates(list[i], exs, prog, list, scoreNow)[1],
                          list[i])
        ELSE IF newHits # {}
        THEN LET x == CHOOSE x \in newHits : \A y \in newHits : x <= y
                 w == getNewWords(exs[x], prog)[1]
             IN  Selected(getExerciseCandidates(w, exs, prog, list, scoreNow)[1], w)
        ELSE IF Len(exs) = 0 THEN NullSelection
        ELSE FirstExercise(exs)

\* selectNewExercise whose corpus scan returns the scanned exercise itself
\* (the earlier logic), not the top-scored candidate for its new word
selectNewExercise_ReturnsScanned(exs, prog, list, scoreNow) ==
    LET listHits == {i \in 1..Len(list) :
                        /\ ~HasWord(prog.words, list[i])
                        /\ Len(getExerciseCandidates(list[i], exs, prog, list, scoreNow)) > 0}
        newHits == {x \in 1..Len(exs) : Len(getNewWords(exs[x], prog)) > 0}
    IN  IF listHits # {}
        THEN LET i == CHOOSE i \in listHits : \A j \in listHits : i <= j
             IN  Selected(getExerciseCandidates(list[i], exs, prog, list, scoreNow)[1],
                          list[i])
        ELSE IF newHits # {}
        THEN LET x == CHOOSE x \in newHits : \A y \in newHits : x <= y
             IN  Selected([exercise |-> exs[x], index |-> x - 1],
                          getNewWords(exs[x], prog)[1])
        ELSE IF Len(exs) = 0 THEN NullSelection
        ELSE FirstExercise(exs)

\* selectNewExercise that leaves the ordered list for the corpus scan when
\* the first list word without progress has no candidate
selectNewExercise_StopsAtFirstNewWord(exs, prog, list, scoreNow) ==
    LET newPositions == {i \in 1..Len(list) : ~HasWord(prog.words, list[i])}
        listHits == {i \in newPositions :
                        /\ \A j \in newPositions : i <= j
                        /\ Len(getExerciseCandidates(list[i], exs, prog, list, scoreNow)) > 0}
        newHits == {x \in 1..Len(exs) :
                       /\ Len(getNewWords(exs[x], prog)) > 0
                       /\ Len(getExerciseCandidates(getNewWords(exs[x], prog)[1],
                                                    exs, prog, list, scoreNow)) > 0}
    IN  IF listHits # {}
        THEN LET i == CHOOSE i \in listHits : \A j \in listHits : i <= j
             IN  Selected(getExerciseCandidates(list[i], exs, prog, list, scoreNow)[1],
                          list[i])
        ELSE IF newHits # {}
        THEN LET x == CHOOSE x \in newHits : \A y \in newHits : x <= y
                 w == getNewWords(exs[x], prog)[1]
             IN  Selected(getExerciseCandidates(w, exs, prog, list, scoreNow)[1], w)
        ELSE IF Len(exs) = 0 THEN NullSelection
        ELSE FirstExercise(exs)

selectNewExercise(exs, prog, list, scoreNow) ==
    LET \* list positions whose word has no progress and has a candidate
        listHits == {i \in 1..Len(list) :
                        /\ ~HasWord(prog.words, list[i])
                        /\ Len(getExerciseCandidates(list[i], exs, prog, list, scoreNow)) > 0}
        \* corpus positions with a word that has no progress
        newHits == {x \in 1..Len(exs) :
                       /\ Len(getNewWords(exs[x], prog)) > 0
                       /\ Len(getExerciseCandidates(getNewWords(exs[x], prog)[1],
                                                    exs, prog, list, scoreNow)) > 0}
    IN  IF listHits # {}
        THEN LET i == CHOOSE i \in listHits : \A j \in listHits : i <= j
             IN  Selected(getExerciseCandidates(list[i], exs, prog, list, scoreNow)[1],
                          list[i])
        ELSE IF newHits # {}
        THEN LET x == CHOOSE x \in newHits : \A y \in newHits : x <= y
                 w == getNewWords(exs[x], prog)[1]
             IN  Selected(getExerciseCandidates(w, exs, prog, list, scoreNow)[1], w)
        ELSE IF Len(exs) = 0 THEN NullSelection
        ELSE FirstExercise(exs)

compareNextReview(a, b) == a.nextReview - b.nextReview

\* .sort((a, b) => a.nextReview - b.nextReview)
sortByNextReview(wps) ==
    StableSort(wps,
               [i \in 1..Len(wps) |->
                   [j \in 1..Len(wps) |-> compareNextReview(wps[i], wps[j])]])

\* wordsNeedingReview without the ordered-list restriction
wordsNeedingReview_IgnoresList(prog, list, selectNow) ==
    LET Due(wp) == ~(wp.nextReview > selectNow)
    IN  sortByNextReview(SelectSeq(prog.words, Due))

\* the overdue words the selector may review, most overdue first
wordsNeedingReview(prog, list, selectNow) ==
    LET Due(wp) ==
            /\ ~(wp.nextReview > selectNow)
            /\ (Len(list) = 0 \/ InOrderedList(list, wp.word))
    IN  sortByNextReview(SelectSeq(prog.words, Due))

\* unlockedCandidates without the unlocked filter: every scored candidate
unlockedCandidates_NoFilter(targetWord, exs, prog, list, selectNow, scoreNow) ==
    getExerciseCandidates(targetWord, exs, prog, list, scoreNow)

\* the scored candidates for targetWord whose other words are all known
unlockedCandidates(targetWord, exs, prog, list, selectNow, scoreNow) ==
    LET Unlocked(c) ==
            \A i \in 1..Len(getExerciseWords(c.exercise)) :
                LET w == getExerciseWords(c.exercise)[i]
                IN  w # targetWord =>
                        /\ HasWord(prog.words, w)
                        /\ WordEntry(prog.words, w).nextReview > selectNow
    IN  SelectSeq(getExerciseCandidates(targetWord, exs, prog, list, scoreNow), Unlocked)

\* selectNextExercise that looks at the most overdue word only and goes on
\* to new-word introduction when that word has no unlocked sentence
selectNextExercise_FirstOverdueOnly(exs, prog, list, selectNow, scoreNow) ==
    LET review == wordsNeedingReview(prog, list, selectNow)
    IN  IF /\ Len(review) > 0
           /\ Len(unlockedCandidates(review[1].word, exs, prog, list,
                                     selectNow, scoreNow)) > 0
        THEN Selected(unlockedCandidates(review[1].word, exs, prog, list,
                                         selectNow, scoreNow)[1],
                      review[1].word)
        ELSE selectNewExercise(exs, prog, list, scoreNow)

\* selectNextExercise reads the clock (selectNow); every getExerciseCandidates
\* call reads it again (scoreNow)
selectNextExercise(exs, prog, list, selectNow, scoreNow) ==
    LET review == wordsNeedingReview(prog, list, selectNow)
        hits == {k \in 1..Len(review) :
                    Len(unlockedCandidates(review[k].word, exs, prog, list,
                                           selectNow, scoreNow)) > 0}
    IN  IF hits # {}
        THEN LET k == CHOOSE k \in hits : \A j \in hits : k <= j
             IN  Selected(unlockedCandidates(review[k].word, exs, prog, list,
                                             selectNow, scoreNow)[1],
                          review[k].word)
        ELSE selectNewExercise(exs, prog, list, scoreNow)

----------------------------------------------------------------------------
(* The corpus and the curriculum of the runs *)

Seg(chinese, pinyin) == [chinese |-> chinese, pinyin |-> pinyin]

Exercise(segments, english) == [segments |-> segments, english |-> english]

\* EMPTY_PROGRESS: what loadProgress returns when nothing is stored
EmptyProgress ==
    [words |-> <<>>, history |-> <<>>, exerciseLastSeen |-> <<>>,
     dailyMetricsHistory |-> <<>>]

\* the corpus of the interval-engine runs: one sentence of two words and a
\* full stop
EngineCorpus ==
    << Exercise(<<Seg("ni", "ni3"), Seg("hao", "hao3"), Seg(".", "")>>, "Hello.") >>

EngineWordList == <<"ni", "hao">>

\* the clock reading at which a run starts
StartClock == Seconds(1000)

\* the clock advances of a run: half a second, 5 s, 29 s (just before a
\* 30 s interval is due), 30 s, 7 days (the first-time interval), 73 days
\* (elapsed * 5 reaches the maximum interval)
ClockAdvances ==
    {ClockStep, Seconds(5), Seconds(29), Seconds(30), Days(7), Days(73)}

\* bounds of a run
MaxUpdates == 3
MaxTicks == 2
MaxClockDays == 90
MaxCompletions == 2
MaxIntroductions == 4

----------------------------------------------------------------------------
(* The interval-engine specification: word updates at the wall clock *)

NoUpdate == [op |-> "none"]

NoSelection == [ran |-> FALSE]

NoScoring == [ran |-> FALSE]

\* no exercise is being answered
NoInput == [op |-> "none"]

Init ==
    /\ exercises = EngineCorpus
    /\ orderedWordList = EngineWordList
    /\ progress = EmptyProgress
    /\ now = StartClock
    /\ lastUpdate = NoUpdate
    /\ selection = NoSelection
    /\ scoring = NoScoring
    /\ nUpdates = 0
    /\ nTicks = 0
    /\ input = NoInput

\* the wall clock advances
Tick ==
    /\ nTicks < MaxTicks
    /\ \E d \in ClockAdvances :
          /\ now + d <= Days(MaxClockDays)
          /\ now' = now + d
    /\ nTicks' = nTicks + 1
    /\ UNCHANGED <<exercises, orderedWordList, progress, lastUpdate, selection,
                   scoring, nUpdates, input>>

\* the stored state of a word before an update (NoState: no entry)
ExistingOf(prog, word) ==
    IF HasWord(prog.words, word) THEN WordEntry(prog.words, word) ELSE NoState

\* updateWordSuccess(word, pinyin, progress, Date.now()) for a word of the
\* corpus; the caller keeps the returned progress
UpdateWordSuccess ==
    /\ nUpdates < MaxUpdates
    /\ \E x \in 1..Len(exercises) :
       \E i \in 1..Len(getExerciseWords(exercises[x])) :
          LET word == getExerciseWords(exercises[x])[i]
              r == updateWordSuccess(word, getPinyinForWord(exercises[x], word),
                                     progress, now)
          IN  /\ progress' = r.progress
              /\ lastUpdate' = [op |-> "success", word |-> word,
                                completedAt |-> now,
                                existing |-> ExistingOf(progress, word),
                                change |-> r.change]
    /\ nUpdates' = nUpdates + 1
    /\ UNCHANGED <<exercises, orderedWordList, now, selection, scoring, nTicks,
                   input>>

\* updateWordFailure(word, pinyin, progress, Date.now()) for a word of the
\* corpus; the caller keeps the returned progress
UpdateWordFailure ==
    /\ nUpdates < MaxUpdates
    /\ \E x \in 1..Len(exercises) :
       \E i \in 1..Len(getExerciseWords(exercises[x])) :
          LET word == getExerciseWords(exercises[x])[i]
              r == updateWordFailure(word, getPinyinForWord(exercises[x], word),
                                     progress, now)
          IN  /\ progress' = r.progress
              /\ lastUpdate' = [op |-> "failure", word |-> word,
                                completedAt |-> now,
                                existing |-> ExistingOf(progress, word),
                                change |-> r.change]
    /\ nUpdates' = nUpdates + 1
    /\ UNCHANGED <<exercises, orderedWordList, now, selection, scoring, nTicks,
                   input>>

Next == Tick \/ UpdateWordSuccess \/ UpdateWordFailure

Spec == Init /\ [][Next]_vars

----------------------------------------------------------------------------
(* The interval engine under a wall clock that is set, forwards or back *)

\* the readings the wall clock may be set to: a minute before the start, the
\* start, 30 s, 7 days and 80 days after it
ClockReadings ==
    { StartClock - Seconds(60), StartClock, StartClock + Seconds(MIN_INTERVAL_SECONDS),
      StartClock + Days(7), StartClock + Days(80) }

\* Date.now() is the system's wall clock: it is not monotonic, and the
\* completion time handed to the updates may lie before a stored lastReviewed
SetClock ==
    /\ nTicks < MaxTicks
    /\ \E t \in ClockReadings \ {now} : now' = t
    /\ nTicks' = nTicks + 1
    /\ UNCHANGED <<exercises, orderedWordList, progress, lastUpdate, selection,
                   scoring, nUpdates, input>>

NextSetClock == SetClock \/ UpdateWordSuccess \/ UpdateWordFailure

SpecSetClock == Init /\ [][NextSetClock]_vars

----------------------------------------------------------------------------
(* The selector specification: selectNextExercise on a stored snapshot *)

\* corpora of the selector runs
CorpusEmpty == <<>>

\* "ni" shares its only sentence with "hao"; "xue" has a sentence of its own
CorpusTwoSentences ==
    << Exercise(<<Seg("ni", "ni3"), Seg("hao", "hao3"), Seg(".", "")>>, "Hello."),
       Exercise(<<Seg("xue", "xue2")>>, "Study") >>

\* three sentences with "ni": with "xue", alone, and with "hao" twice
CorpusThreeSentences ==
    << Exercise(<<Seg("xue", "xue2"), Seg("ni", "ni3")>>, "You study"),
       Exercise(<<Seg("ni", "ni3")>>, "You"),
       Exercise(<<Seg("hao", "hao3"), Seg("ni", "ni3"), Seg(",", ""),
                  Seg("hao", "hao3")>>, "Good, you, good") >>

\* a single one-word sentence: "hao" and "xue" occur in no exercise
CorpusOneSentence == << Exercise(<<Seg("ni", "ni3")>>, "You") >>

SelectorCorpora ==
    {CorpusEmpty, CorpusTwoSentences, CorpusThreeSentences, CorpusOneSentence}

\* curricula of the selector runs: none, all three words, one without "hao",
\* one whose first word "shi" occurs in no exercise
SelectorWordLists ==
    { <<>>, <<"ni", "hao", "xue">>, <<"xue", "ni">>, <<"shi", "hao">> }

SnapshotWords == {"ni", "hao", "xue"}

\* bounds of a stored snapshot: the number of words with progress and the
\* number of distinct times at which they were last reviewed
MaxSnapshotWords == 3
SnapshotTimes == 1

\* the entries a stored snapshot may hold for a word: written by the engine
\* on a failure (due 30 s later) or on a first success (due 7 days later),
\* at StartClock or up to SnapshotTimes - 1 clock steps before it
SnapshotEntries ==
    UNION { { updateWordFailure(w, "", EmptyProgress,
                                StartClock - k * ClockStep).progress.words[1],
              updateWordSuccess(w, "", EmptyProgress,
                                StartClock - k * ClockStep).progress.words[1] } :
            w \in SnapshotWords, k \in 0..(SnapshotTimes - 1) }

\* progress.words of a stored snapshot: entries of distinct words in any
\* insertion order
SnapshotWordMaps ==
    { s \in UNION { [1..n -> SnapshotEntries] : n \in 0..MaxSnapshotWords } :
        \A i, j \in 1..Len(s) : i # j => s[i].word # s[j].word }

\* exerciseLastSeen of a stored snapshot: nothing seen, or one exercise seen
\* at StartClock
SnapshotLastSeen(corpus) ==
    { <<>> } \cup { (k :> StartClock) : k \in 0..(Len(corpus) - 1) }

\* the clock when the selector runs: half a second before a word failed at
\* StartClock falls due, the instant it falls due, and after every word is
\* due
SelectTimes ==
    { StartClock + Seconds(MIN_INTERVAL_SECONDS) - ClockStep,
      StartClock + Seconds(MIN_INTERVAL_SECONDS),
      StartClock + Days(8) }

InitSelector ==
    /\ exercises \in SelectorCorpora
    /\ orderedWordList \in SelectorWordLists
    /\ \E words \in SnapshotWordMaps :
       \E seen \in SnapshotLastSeen(exercises) :
          progress = [EmptyProgress EXCEPT !.words = words,
                                           !.exerciseLastSeen = seen]
    /\ now \in SelectTimes
    /\ lastUpdate = NoUpdate
    /\ selection = NoSelection
    /\ scoring = NoScoring
    /\ nUpdates = 0
    /\ nTicks = 0
    /\ input = NoInput

\* selectNextExercise(exercises, progress, orderedWordList): the selector
\* reads the clock, and the scorer reads it again, possibly one step later
Select ==
    /\ selection = NoSelection
    /\ \E drift \in {0, ClockStep} :
          /\ selection' = [ran |-> TRUE,
                           selectNow |-> now,
                           scoreNow |-> now + drift,
                           result |-> selectNextExercise(exercises, progress,
                                                         orderedWordList,
                                                         now, now + drift)]
          /\ now' = now + drift
    /\ UNCHANGED <<exercises, orderedWordList, progress, lastUpdate, scoring,
                   nUpdates, nTicks, input>>

NextSelector == Select

SpecSelector == InitSelector /\ [][NextSelector]_vars

----------------------------------------------------------------------------
(* The reading session: the learner completes the displayed exercise *)

\* the selector's result with both of its clock readings taken at t
SelectionAt(prog, t) ==
    [ran |-> TRUE, selectNow |-> t, scoreNow |-> t,
     result |-> selectNextExercise(exercises, prog, orderedWordList, t, t)]

\* corpora of the reading sessions
ReadCorpora == {CorpusTwoSentences, CorpusThreeSentences}

\* the page starts from the stored progress (nothing stored) and displays
\* the exercise that selectNextExercise returns
InitRead ==
    /\ exercises \in ReadCorpora
    /\ orderedWordList = <<"ni", "hao", "xue">>
    /\ progress = EmptyProgress
    /\ now = StartClock
    /\ lastUpdate = NoUpdate
    /\ selection = SelectionAt(EmptyProgress, StartClock)
    /\ scoring = NoScoring
    /\ nUpdates = 0
    /\ nTicks = 0
    /\ input = NoInput

\* the time the learner takes over the displayed exercise: half a second,
\* 30 s (a failed word falls due), 7 days (a new word falls due)
AnswerTimes == {ClockStep, Seconds(MIN_INTERVAL_SECONDS),
                Seconds(FIRST_TIME_SUCCESS_INTERVAL_SECONDS)}

\* checkAndAdvance when the last input segment is matched, some time after
\* the exercise was displayed: every word of the displayed exercise is
\* updated at completedAt = Date.now(), the exercise goes to the history
\* (which reads the clock again, possibly one step later), the progress is
\* kept and the next exercise is displayed.  hintedWordIndices holds the
\* input positions at which Escape was pressed.
CompleteExercise ==
    /\ nUpdates < MaxCompletions
    /\ ~selection.result.isNull
    /\ LET currentIndex == selection.result.index
           currentExercise == exercises[currentIndex + 1]
           totalInputs == Len(getExerciseWords(currentExercise))
       IN  \E hintedWordIndices \in SUBSET (0..(totalInputs - 1)) :
           \E answerTime \in AnswerTimes :
           \E drift \in {0, ClockStep} :
           \E completedAt \in {now + answerTime} :
           \E r \in {completeExercise(currentExercise, currentIndex,
                                      hintedWordIndices, progress, completedAt,
                                      completedAt + drift)} :
           \E next \in {SelectionAt(r.progress, completedAt + drift)} :
              /\ progress' = r.progress
              /\ now' = completedAt + drift
              /\ selection' = IF next.result.isNull THEN selection ELSE next
              /\ lastUpdate' = [op |-> "complete",
                                index |-> currentIndex,
                                exercise |-> currentExercise,
                                hinted |-> hintedWordIndices,
                                completedAt |-> completedAt,
                                before |-> progress,
                                updated |-> r.updated,
                                wordChanges |-> r.wordChanges]
    /\ nUpdates' = nUpdates + 1
    /\ UNCHANGED <<exercises, orderedWordList, scoring, nTicks, input>>

NextRead == CompleteExercise

SpecRead == InitRead /\ [][NextRead]_vars

----------------------------------------------------------------------------
(* New-word introduction: the learner completes what is shown, unhinted *)

\* corpora of the introduction runs (a page with an empty corpus shows no
\* exercise)
IntroduceCorpora == {CorpusOneSentence, CorpusTwoSentences, CorpusThreeSentences}

\* curricula of the introduction runs
IntroduceWordLists == { <<>>, <<"ni", "hao", "xue">>, <<"shi", "hao">> }

\* stored progress of up to two words, none of them due within the run (the
\* earliest is due 30 s after StartClock, less a clock step)
IntroduceWordMaps == {s \in SnapshotWordMaps : Len(s) <= 2}

InitIntroduce ==
    /\ exercises \in IntroduceCorpora
    /\ orderedWordList \in IntroduceWordLists
    /\ \E words \in IntroduceWordMaps :
          progress = [EmptyProgress EXCEPT !.words = words]
    /\ now = StartClock
    /\ lastUpdate = NoUpdate
    /\ selection = SelectionAt(progress, StartClock)
    /\ scoring = NoScoring
    /\ nUpdates = 0
    /\ nTicks = 0
    /\ input = NoInput

\* checkAndAdvance when the last input segment is matched half a second
\* after the exercise was displayed and Escape was never pressed
CompleteUnhinted ==
    /\ nUpdates < MaxIntroductions
    /\ ~selection.result.isNull
    /\ LET currentIndex == selection.result.index
           currentExercise == exercises[currentIndex + 1]
       IN  \E drift \in {0, ClockStep} :
           \E completedAt \in {now + ClockStep} :
           \E r \in {completeExercise(currentExercise, currentIndex, {},
                                      progress, completedAt,
                                      completedAt + drift)} :
           \E next \in {SelectionAt(r.progress, completedAt + drift)} :
              /\ progress' = r.progress
              /\ now' = completedAt + drift
              /\ selection' = IF next.result.isNull THEN selection ELSE next
              /\ lastUpdate' = [op |-> "complete",
                                index |-> currentIndex,
                                exercise |-> currentExercise,
                                hinted |-> {},
                                completedAt |-> completedAt,
                                before |-> progress,
                                shown |-> selection.result,
                                updated |-> r.updated,
                                wordChanges |-> r.wordChanges]
    /\ nUpdates' = nUpdates + 1
    /\ UNCHANGED <<exercises, orderedWordList, scoring, nTicks, input>>

NextIntroduce == CompleteUnhinted

\* a step that counts a completion: under NextIntroduce these are the
\* CompleteUnhinted steps, possible whenever an exercise is shown
CompletionCounted ==
    /\ nUpdates < MaxIntroductions
    /\ ~selection.result.isNull
    /\ nUpdates' = nUpdates + 1

\* the learner goes on completing what is shown
SpecIntroduce ==
    InitIntroduce /\ [][NextIntroduce]_vars /\ WF_nUpdates(CompletionCounted)

----------------------------------------------------------------------------
(* The scorer specification: getExerciseCandidates on a stored snapshot *)

\* "ni" with "hao" in either order (equal scores), with the two-character
\* "nimen", and as a segment without pinyin
CorpusScorer ==
    << Exercise(<<Seg("ni", "ni3"), Seg("hao", "hao3")>>, "You good"),
       Exercise(<<Seg("nimen", "ni3men"), Seg("ni", "ni3")>>, "You all, you"),
       Exercise(<<Seg("hao", "hao3"), Seg("ni", "ni3")>>, "Good you"),
       Exercise(<<Seg("ni", ""), Seg("hao", "hao3")>>, "Good") >>

ScorerCorpora == {CorpusScorer, CorpusThreeSentences}

\* curricula of the scorer runs: none, every word, and one that lists "ni"
\* twice and leaves out "xue" and "nimen"
ScorerWordLists ==
    { <<>>, <<"ni", "hao", "xue", "nimen">>, <<"ni", "hao", "ni">> }

\* the words candidates are asked for; "shi" occurs in no exercise
ScorerWords == {"ni", "hao", "xue", "shi"}

\* the entries a stored snapshot of the scorer runs may hold for a word:
\* written by the engine at StartClock on a failure (due 30 s later) or on a
\* first success (due 7 days later)
ScorerEntries ==
    UNION { { updateWordFailure(w, "", EmptyProgress, StartClock).progress.words[1],
              updateWordSuccess(w, "", EmptyProgress, StartClock).progress.words[1] } :
            w \in SnapshotWords }

\* progress.words of the scorer runs: the scorer looks entries up by word, so
\* one insertion order per set of entries is drawn
ScorerWordMaps ==
    { s \in UNION { [1..n -> ScorerEntries] : n \in 0..MaxSnapshotWords } :
        \A i, j \in 1..Len(s) :
            i < j => \/ (s[i].word = "ni" /\ s[j].word # "ni")
                     \/ (s[i].word = "hao" /\ s[j].word = "xue") }

\* bound of a stored snapshot: the number of exercises completed before
MaxSeenExercises == 2

\* exerciseLastSeen of the scorer runs: up to MaxSeenExercises exercises,
\* each completed at StartClock or one clock step before it
ScorerLastSeen(corpus) ==
    UNION { [S -> {StartClock - ClockStep, StartClock}] :
            S \in {T \in SUBSET (0..(Len(corpus) - 1)) :
                      Cardinality(T) <= MaxSeenExercises} }

\* the clock when the scorer runs: half a second before a word failed at
\* StartClock falls due, the instant it falls due, and half a second after
ScoreTimes ==
    { StartClock + Seconds(MIN_INTERVAL_SECONDS) - ClockStep,
      StartClock + Seconds(MIN_INTERVAL_SECONDS),
      StartClock + Seconds(MIN_INTERVAL_SECONDS) + ClockStep }

InitScorer ==
    /\ exercises \in ScorerCorpora
    /\ orderedWordList \in ScorerWordLists
    /\ \E words \in ScorerWordMaps :
       \E seen \in ScorerLastSeen(exercises) :
          progress = [EmptyProgress EXCEPT !.words = words,
                                           !.exerciseLastSeen = seen]
    /\ now \in ScoreTimes
    /\ lastUpdate = NoUpdate
    /\ selection = NoSelection
    /\ scoring = NoScoring
    /\ nUpdates = 0
    /\ nTicks = 0
    /\ input = NoInput

\* getExerciseCandidates(targetWord, exercises, progress, wordList)
Score ==
    /\ scoring = NoScoring
    /\ \E word \in ScorerWords :
          scoring' = [ran |-> TRUE,
                      word |-> word,
                      scoreNow |-> now,
                      candidates |-> getExerciseCandidates(word, exercises, progress,
                                                           orderedWordList, now)]
    /\ UNCHANGED <<exercises, orderedWordList, progress, now, lastUpdate, selection,
                   nUpdates, nTicks, input>>

NextScorer == Score

SpecScorer == InitScorer /\ [][NextScorer]_vars

----------------------------------------------------------------------------
(* The exercise input state machine (lib/domain/exercise-input.ts).        *)
(* A string is a sequence of one-character strings, so that                *)
(* normalizePinyin is computed character by character.                     *)

\* number of input segments of the longest exercise answered
MaxInputs == 3

\* String.prototype.toLowerCase on one character of the typing alphabet
toLowerCase(c) ==
    CASE c = "N" -> "n"
      [] c = "I" -> "i"
      [] c = "H" -> "h"
      [] c = "A" -> "a"
      [] c = "O" -> "o"
      [] OTHER -> c

\* the characters matched by \s
Whitespace == {" ", "\t", "\n"}

NotWhitespace(c) == c \notin Whitespace

\* pinyin.toLowerCase().replace(/\s+/g, "")
normalizePinyin(pinyin) ==
    SelectSeq([k \in 1..Len(pinyin) |-> toLowerCase(pinyin[k])], NotWhitespace)

createInitialState(totalInputs) ==
    [currentInputIndex |-> 0,
     inputValue |-> <<>>,
     showHint |-> FALSE,
     hintedIndices |-> {},
     totalInputs |-> totalInputs,
     isComplete |-> FALSE]

\* requestHint that leaves the typed text in the input
requestHint_KeepsInput(state) ==
    IF state.showHint \/ state.isComplete
    THEN state
    ELSE [state EXCEPT !.showHint = TRUE,
                       !.hintedIndices = @ \cup {state.currentInputIndex}]

requestHint(state) ==
    IF state.showHint \/ state.isComplete
    THEN state
    ELSE [state EXCEPT !.inputValue = <<>>,
                       !.showHint = TRUE,
                       !.hintedIndices = @ \cup {state.currentInputIndex}]

\* UpdateInputResult without segmentCompleted and exerciseCompleted:
\* segmentCompleted undefined is Null, exerciseCompleted undefined is FALSE
Unreported(state) ==
    [state |-> state, segmentCompleted |-> Null, exerciseCompleted |-> FALSE]

\* updateInput that leaves the hint of the finished segment shown
updateInput_KeepsHint(state, newValue, expectedPinyin) ==
    IF state.isComplete
    THEN Unreported(state)
    ELSE IF normalizePinyin(newValue) # normalizePinyin(expectedPinyin)
    THEN Unreported([state EXCEPT !.inputValue = newValue])
    ELSE IF state.currentInputIndex >= state.totalInputs - 1
    THEN [state |-> [state EXCEPT !.inputValue = newValue, !.isComplete = TRUE],
          segmentCompleted |-> state.currentInputIndex,
          exerciseCompleted |-> TRUE]
    ELSE [state |-> [state EXCEPT !.currentInputIndex = @ + 1,
                                  !.inputValue = <<>>],
          segmentCompleted |-> state.currentInputIndex,
          exerciseCompleted |-> FALSE]

\* updateInput without the guard on a complete exercise
updateInput_NoCompleteGuard(state, newValue, expectedPinyin) ==
    IF normalizePinyin(newValue) # normalizePinyin(expectedPinyin)
    THEN Unreported([state EXCEPT !.inputValue = newValue])
    ELSE IF state.currentInputIndex >= state.totalInputs - 1
    THEN [state |-> [state EXCEPT !.inputValue = newValue, !.isComplete = TRUE],
          segmentCompleted |-> state.currentInputIndex,
          exerciseCompleted |-> TRUE]
    ELSE [state |-> [state EXCEPT !.currentInputIndex = @ + 1,
                                  !.inputValue = <<>>,
                                  !.showHint = FALSE],
          segmentCompleted |-> state.currentInputIndex,
          exerciseCompleted |-> FALSE]

\* updateInput whose last segment is one past the end
updateInput_LastSegmentPastEnd(state, newValue, expectedPinyin) ==
    IF state.isComplete
    THEN Unreported(state)
    ELSE IF normalizePinyin(newValue) # normalizePinyin(expectedPinyin)
    THEN Unreported([state EXCEPT !.inputValue = newValue])
    ELSE IF state.currentInputIndex >= state.totalInputs
    THEN [state |-> [state EXCEPT !.inputValue = newValue, !.isComplete = TRUE],
          segmentCompleted |-> state.currentInputIndex,
          exerciseCompleted |-> TRUE]
    ELSE [state |-> [state EXCEPT !.currentInputIndex = @ + 1,
                                  !.inputValue = <<>>,
                                  !.showHint = FALSE],
          segmentCompleted |-> state.currentInputIndex,
          exerciseCompleted |-> FALSE]

updateInput(state, newValue, expectedPinyin) ==
    IF state.isComplete
    THEN Unreported(state)
    ELSE IF normalizePinyin(newValue) # normalizePinyin(expectedPinyin)
    THEN Unreported([state EXCEPT !.inputValue = newValue])
    ELSE IF state.currentInputIndex >= state.totalInputs - 1
    THEN [state |-> [state EXCEPT !.inputValue = newValue, !.isComplete = TRUE],
          segmentCompleted |-> state.currentInputIndex,
          exerciseCompleted |-> TRUE]
    ELSE [state |-> [state EXCEPT !.currentInputIndex = @ + 1,
                                  !.inputValue = <<>>,
                                  !.showHint = FALSE],
          segmentCompleted |-> state.currentInputIndex,
          exerciseCompleted |-> FALSE]

resetState(totalInputs) == createInitialState(totalInputs)

\* getSegmentDisplayState that shows every finished segment like the current one
getSegmentDisplayState_CurrentHintOnly(state, segmentInputIndex) ==
    IF segmentInputIndex < state.currentInputIndex
    THEN [visualState |-> "completed", showHint |-> state.showHint]
    ELSE IF segmentInputIndex = state.currentInputIndex
    THEN [visualState |-> "current", showHint |-> state.showHint]
    ELSE [visualState |-> "pending", showHint |-> FALSE]

getSegmentDisplayState(state, segmentInputIndex) ==
    IF segmentInputIndex < state.currentInputIndex
    THEN [visualState |-> "completed",
          showHint |-> segmentInputIndex \in state.hintedIndices]
    ELSE IF segmentInputIndex = state.currentInputIndex
    THEN [visualState |-> "current", showHint |-> state.showHint]
    ELSE [visualState |-> "pending", showHint |-> FALSE]

----------------------------------------------------------------------------
(* The input specification: one exercise is answered through the hook      *)
(* useExerciseInput; the engine's variables stay as loaded.                *)

\* the pinyin of the input segments, a capital at the start of the sentence
SegmentPinyins == << <<"N", "i">>, <<"h", "a", "o">>, <<"n", "i">>, <<"h", "a", "o">> >>

\* inputSegments of the exercises answered: 1..MaxInputs segments with pinyin
InputSegments == { SubSeq(SegmentPinyins, 1, n) : n \in 1..MaxInputs }

\* what the student may have in the input box after a change
TypedValues ==
    { <<>>, <<"n">>, <<"n", "i">>, <<"n", " ", "I">>, <<"h", "a", "o">>,
      <<"H", "A", "O">> }

\* the display state of every input segment, as rendered from the state
RenderSegments(state) ==
    [i \in 0..(state.totalInputs - 1) |-> getSegmentDisplayState(state, i)]

\* the input record after a call: its state, the call and what it returned
InputAfter(op, result, newValue, expectedPinyin, matched) ==
    [segments |-> input.segments,
     state |-> result.state,
     display |-> RenderSegments(result.state),
     op |-> op,
     before |-> input.state,
     newValue |-> newValue,
     expected |-> expectedPinyin,
     segmentCompleted |-> result.segmentCompleted,
     exerciseCompleted |-> result.exerciseCompleted,
     matched |-> matched,
     reports |-> input.reports + (IF result.exerciseCompleted THEN 1 ELSE 0)]

InitInput ==
    /\ exercises = EngineCorpus
    /\ orderedWordList = <<>>
    /\ progress = EmptyProgress
    /\ now = 0
    /\ lastUpdate = NoUpdate
    /\ selection = NoSelection
    /\ scoring = NoScoring
    /\ nUpdates = 0
    /\ nTicks = 0
    /\ \E segments \in InputSegments :
          input = [segments |-> segments,
                   state |-> createInitialState(Len(segments)),
                   display |-> RenderSegments(createInitialState(Len(segments))),
                   op |-> "createInitialState",
                   before |-> createInitialState(Len(segments)),
                   newValue |-> <<>>,
                   expected |-> <<>>,
                   segmentCompleted |-> Null,
                   exerciseCompleted |-> FALSE,
                   matched |-> 0,
                   reports |-> 0]

\* Escape: setState(requestHint(state))
RequestHint ==
    /\ input' = InputAfter("requestHint", Unreported(requestHint(input.state)),
                           <<>>, <<>>, input.matched)
    /\ UNCHANGED <<exercises, orderedWordList, progress, now, lastUpdate, selection,
                   scoring, nUpdates, nTicks>>

\* a change of the input box: checkAndAdvance(newValue)
UpdateInput ==
    /\ input.state.currentInputIndex < Len(input.segments)
    /\ \E newValue \in TypedValues :
          LET expectedPinyin == input.segments[input.state.currentInputIndex + 1]
              isMatching == /\ ~input.state.isComplete
                            /\ normalizePinyin(newValue) = normalizePinyin(expectedPinyin)
          IN  input' = InputAfter("updateInput",
                                  updateInput(input.state, newValue, expectedPinyin),
                                  newValue, expectedPinyin,
                                  input.matched + (IF isMatching THEN 1 ELSE 0))
    /\ UNCHANGED <<exercises, orderedWordList, progress, now, lastUpdate, selection,
                   scoring, nUpdates, nTicks>>

\* reset: setState(resetState(totalInputs))
Reset ==
    /\ input' = [InputAfter("resetState", Unreported(resetState(input.state.totalInputs)),
                            <<>>, <<>>, 0)
                    EXCEPT !.reports = 0]
    /\ UNCHANGED <<exercises, orderedWordList, progress, now, lastUpdate, selection,
                   scoring, nUpdates, nTicks>>

NextInput == RequestHint \/ UpdateInput \/ Reset

SpecInput == InitInput /\ [][NextInput]_vars

----------------------------------------------------------------------------
(* Claims about the interval engine, read off the latest update *)

\* the stored entry of the word the latest update wrote
UpdatedEntry == WordEntry(progress.words, lastUpdate.word)

\* the latest update was a successful recall of a word that had an entry
SuccessOnExisting ==
    /\ lastUpdate.op = "success"
    /\ lastUpdate.existing # NoState

\* seconds between the word's previous review and the latest update
ElapsedOfUpdate == lastUpdate.completedAt - lastUpdate.existing.lastReviewed

\* the latest update came before the word was due
UpdateWasEarly ==
    lastUpdate.completedAt <
        lastUpdate.existing.lastReviewed + lastUpdate.existing.intervalSeconds

\* C1: a successful recall before the word is due (lastReviewed <=
\* completedAt < lastReviewed + intervalSeconds*1000, intervalSeconds within
\* [min, max]) never yields an interval below the pre-review interval.
C1_EarlyReviewNeverDecreases ==
    ( /\ SuccessOnExisting
      /\ lastUpdate.existing.intervalSeconds >= minIntervalSeconds
      /\ lastUpdate.existing.intervalSeconds <= maxIntervalSeconds
      /\ lastUpdate.existing.lastReviewed <= lastUpdate.completedAt
      /\ UpdateWasEarly )
    => /\ lastUpdate.change.newIntervalSeconds >= lastUpdate.existing.intervalSeconds
       /\ UpdatedEntry.intervalSeconds >= lastUpdate.existing.intervalSeconds

\* C6: every stored WordProgress has nextReview = lastReviewed +
\* intervalSeconds*1000; the entry written by the latest update has
\* lastReviewed = that update's completedAt, and the returned change carries
\* the entry's nextReview and interval.
C6_NextReviewInvariant ==
    /\ \A i \in 1..Len(progress.words) :
          progress.words[i].nextReview =
              progress.words[i].lastReviewed + progress.words[i].intervalSeconds
    /\ lastUpdate # NoUpdate =>
          /\ HasWord(progress.words, lastUpdate.word)
          /\ UpdatedEntry.lastReviewed = lastUpdate.completedAt
          /\ lastUpdate.change.nextReview = UpdatedEntry.nextReview
          /\ lastUpdate.change.newIntervalSeconds = UpdatedEntry.intervalSeconds
          /\ lastUpdate.change.nextReview =
                 lastUpdate.completedAt + lastUpdate.change.newIntervalSeconds

\* C6 witness: a second update of a word, at a later time than its first,
\* with another word stored beside it
C6_Witness ==
    /\ lastUpdate # NoUpdate
    /\ lastUpdate.existing # NoState
    /\ lastUpdate.completedAt > lastUpdate.existing.lastReviewed
    /\ Len(progress.words) = 2

\* C7: a failure update sets intervalSeconds to exactly 30 s and
\* consecutiveSuccesses to 0, whatever the prior state and completedAt.
C7_FailureResets ==
    lastUpdate.op = "failure" =>
        /\ UpdatedEntry.intervalSeconds = Seconds(MIN_INTERVAL_SECONDS)
        /\ UpdatedEntry.consecutiveSuccesses = 0
        /\ lastUpdate.change.newIntervalSeconds = Seconds(MIN_INTERVAL_SECONDS)

\* C7 witness: a failure of a word that stood at the maximal interval with
\* two successes in a row
C7_Witness ==
    /\ lastUpdate.op = "failure"
    /\ lastUpdate.existing # NoState
    /\ lastUpdate.existing.intervalSeconds = maxIntervalSeconds
    /\ lastUpdate.existing.consecutiveSuccesses = 2

\* C8: a successful recall of a word with no prior state yields exactly
\* the 7-day interval, consecutiveSuccesses = 1, wasEarlyReview = false and
\* oldIntervalSeconds = null, at every completion time.
C8_FirstTimeSuccess ==
    (lastUpdate.op = "success" /\ lastUpdate.existing = NoState) =>
        /\ UpdatedEntry.intervalSeconds = Seconds(FIRST_TIME_SUCCESS_INTERVAL_SECONDS)
        /\ lastUpdate.change.newIntervalSeconds =
               Seconds(FIRST_TIME_SUCCESS_INTERVAL_SECONDS)
        /\ UpdatedEntry.consecutiveSuccesses = 1
        /\ lastUpdate.change.wasEarlyReview = FALSE
        /\ lastUpdate.change.wasFailure = FALSE
        /\ lastUpdate.change.oldIntervalSeconds = Null

\* C8 witness: a first success of a word after the clock has advanced, with
\* another word already stored
C8_Witness ==
    /\ lastUpdate.op = "success"
    /\ lastUpdate.existing = NoState
    /\ lastUpdate.completedAt > StartClock
    /\ Len(progress.words) = 2

\* C9: an on-time or overdue successful recall yields
\* round(elapsedSeconds * 5) clamped to [30, 31536000].
C9_GoodReviewRoundedTimesFive ==
    (SuccessOnExisting /\ ~UpdateWasEarly) =>
        lastUpdate.change.newIntervalSeconds =
            clampInterval(RoundSeconds(ElapsedOfUpdate * GOOD_REVIEW_MULTIPLIER))

\* C10: an early successful recall yields max(current interval,
\* round(elapsedSeconds * 1.05)) clamped to [min, max].
C10_EarlyReviewMaxOfCurrentAndCandidate ==
    (SuccessOnExisting /\ UpdateWasEarly) =>
        lastUpdate.change.newIntervalSeconds =
            clampInterval(Max2(lastUpdate.existing.intervalSeconds,
                               RoundSeconds((ElapsedOfUpdate * EarlyNum) \div EarlyDen)))

\* inputs of clampInterval: negative, zero, a fraction of a second, around the
\* minimum, between the bounds, around the maximum
ClampInputs ==
    { -Seconds(10), -1, 0, 1, Seconds(10), Seconds(MIN_INTERVAL_SECONDS) - 1,
      Seconds(MIN_INTERVAL_SECONDS), Seconds(MIN_INTERVAL_SECONDS + 1),
      Days(7), Seconds(MAX_INTERVAL_SECONDS - 1), Seconds(MAX_INTERVAL_SECONDS),
      Seconds(MAX_INTERVAL_SECONDS) + 1, Seconds(MAX_INTERVAL_SECONDS + 1) }

WithinIntervalBounds(x) ==
    /\ x >= Seconds(MIN_INTERVAL_SECONDS)
    /\ x <= Seconds(MAX_INTERVAL_SECONDS)

\* C11: clampInterval never returns a value outside [minIntervalSeconds,
\* maxIntervalSeconds], and after any sequence of success and failure
\* updates, at any completion times (also at or before lastReviewed), every
\* stored intervalSeconds lies within [30, 31536000].
C11_IntervalsWithinBounds ==
    /\ \A x \in ClampInputs : WithinIntervalBounds(clampInterval(x))
    /\ \A i \in 1..Len(progress.words) :
          WithinIntervalBounds(progress.words[i].intervalSeconds)
    /\ lastUpdate # NoUpdate =>
          WithinIntervalBounds(lastUpdate.change.newIntervalSeconds)

\* C11 witness: a successful recall completed before the word's stored
\* lastReviewed, after the word had reached the maximal interval
C11_Witness ==
    /\ SuccessOnExisting
    /\ lastUpdate.completedAt < lastUpdate.existing.lastReviewed
    /\ lastUpdate.existing.intervalSeconds = maxIntervalSeconds
    /\ UpdatedEntry.intervalSeconds = minIntervalSeconds

----------------------------------------------------------------------------
(* Claims about the selector, read off the latest selection *)

NextReviewOf(w) == WordEntry(progress.words, w).nextReview

\* w has progress and is not due at the selector's clock reading
KnownAtSelect(w) ==
    HasWord(progress.words, w) /\ NextReviewOf(w) > selection.selectNow

\* w is overdue at the selector's clock reading
OverdueAtSelect(w) ==
    HasWord(progress.words, w) /\ NextReviewOf(w) <= selection.selectNow

\* w is overdue and the curriculum, when there is one, lists it
EligibleOverdue(w) ==
    /\ OverdueAtSelect(w)
    /\ (Len(orderedWordList) = 0 \/ InSeq(orderedWordList, w))

\* the word-bearing segments of an exercise, as a set of words
WordsOf(exercise) ==
    {exercise.segments[i].chinese : i \in {j \in 1..Len(exercise.segments) :
                                              exercise.segments[j].pinyin # ""}}

\* every word of the exercise other than w is known
UnlockedFor(exercise, w) == \A v \in WordsOf(exercise) \ {w} : KnownAtSelect(v)

\* some sentence of the corpus holds w and is unlocked for it
HasUnlockedSentence(w) ==
    \E x \in 1..Len(exercises) :
        w \in WordsOf(exercises[x]) /\ UnlockedFor(exercises[x], w)

\* the overdue words a review could be shown for
Reviewable == {w \in SnapshotWords : EligibleOverdue(w) /\ HasUnlockedSentence(w)}

\* the latest selection returned a target word
ReturnedTarget ==
    /\ selection.ran
    /\ ~selection.result.isNull
    /\ selection.result.hasTargetWord

C3_ReviewSentenceIsUnlocked ==
    (ReturnedTarget /\ HasWord(progress.words, selection.result.targetWord)) =>
        \A v \in WordsOf(selection.result.exercise) \ {selection.result.targetWord} :
            /\ HasWord(progress.words, v)
            /\ NextReviewOf(v) > selection.selectNow

\* C3 witness: a review whose sentence holds another word, while a sentence
\* with the target and a word that is not known exists too
C3_Witness ==
    /\ ReturnedTarget
    /\ HasWord(progress.words, selection.result.targetWord)
    /\ WordsOf(selection.result.exercise) # {selection.result.targetWord}
    /\ \E x \in 1..Len(exercises) :
          /\ selection.result.targetWord \in WordsOf(exercises[x])
          /\ ~UnlockedFor(exercises[x], selection.result.targetWord)

\* C4: with a non-empty ordered list, the returned targetWord is never an
\* overdue word that the list does not hold.
C4_NeverTargetsOverdueWordOutsideList ==
    (ReturnedTarget /\ Len(orderedWordList) > 0) =>
        ~( /\ OverdueAtSelect(selection.result.targetWord)
           /\ ~InSeq(orderedWordList, selection.result.targetWord) )

\* C4 witness: a target was returned although an overdue word outside the
\* list had an unlocked sentence and was more overdue than any listed word
C4_Witness ==
    /\ ReturnedTarget
    /\ Len(orderedWordList) > 0
    /\ \E u \in SnapshotWords :
          /\ OverdueAtSelect(u)
          /\ ~InSeq(orderedWordList, u)
          /\ HasUnlockedSentence(u)
          /\ \A v \in SnapshotWords :
                (OverdueAtSelect(v) /\ v # u) => NextReviewOf(u) < NextReviewOf(v)
          /\ \E v \in SnapshotWords : OverdueAtSelect(v) /\ v # u

\* C5: selectNextExercise returns null exactly when the corpus is empty.
C5_NullIffEmptyCorpus ==
    selection.ran => (selection.result.isNull <=> Len(exercises) = 0)

\* C5 witness: a non-empty corpus in which nothing matches (every word with
\* progress, none reviewable, words in progress that occur in no exercise):
\* the first exercise is returned
C5_Witness ==
    /\ selection.ran
    /\ Len(exercises) > 0
    /\ ~selection.result.isNull
    /\ ~selection.result.hasTargetWord
    /\ \E w \in SnapshotWords :
          HasWord(progress.words, w) /\ \A x \in 1..Len(exercises) : w \notin WordsOf(exercises[x])


----------------------------------------------------------------------------
(* Claims about the scorer, read off the latest getExerciseCandidates *)

\* the documented sort key of a scored candidate
ScoreKey(c) ==
    << c.score.wordsNotInOrderedList, c.score.unknownOrReviewWordCount,
       c.score.hasBeenSeen, c.score.largestOrderedWordIndex,
       c.score.chineseCharacterCount, c.breakdown.lastSeen >>

\* keys a and b agree on their first n components
KeysTie(a, b, n) == \A k \in 1..n : a[k] = b[k]

LexLess(a, b) == \E k \in 1..Len(a) : KeysTie(a, b, k - 1) /\ a[k] < b[k]

LexLeq(a, b) == a = b \/ LexLess(a, b)

\* the positions of the returned list
Ranks == 1..Len(scoring.candidates)

KeyAt(k) == ScoreKey(scoring.candidates[k])

HoldingWord(word) ==
    {x - 1 : x \in {y \in 1..Len(exercises) :
        \E i \in 1..Len(exercises[y].segments) :
            /\ exercises[y].segments[i].chinese = word
            /\ exercises[y].segments[i].pinyin # ""}}

\* C13: getExerciseCandidates(word, ...) returns exactly the exercises that
\* hold the word in a segment with non-empty pinyin, each once and with its
\* corpus position as index; an exercise that holds the word only in a
\* segment without pinyin is no candidate; the list is empty when no
\* exercise holds the word.
C13_CandidatesAreExercisesWithWord ==
    scoring.ran =>
        /\ {scoring.candidates[k].index : k \in Ranks} = HoldingWord(scoring.word)
        /\ Len(scoring.candidates) = Cardinality(HoldingWord(scoring.word))
        /\ \A k \in Ranks :
              scoring.candidates[k].exercise =
                  exercises[scoring.candidates[k].index + 1]

\* C13 witness: candidates were returned and an exercise that holds the word
\* in a segment without pinyin is not among them
C13_Witness ==
    /\ scoring.ran
    /\ Len(scoring.candidates) >= 2
    /\ \E x \in 1..Len(exercises) :
          /\ \E i \in 1..Len(exercises[x].segments) :
                /\ exercises[x].segments[i].chinese = scoring.word
                /\ exercises[x].segments[i].pinyin = ""
          /\ \A k \in Ranks : scoring.candidates[k].index # x - 1

\* w is not known when the scorer reads the clock: it has no progress or is due
NotKnownAtScore(w) ==
    ~(HasWord(progress.words, w) /\ NextReviewOf(w) > scoring.scoreNow)

\* the segments of an exercise that bear a word which is not known
OpenSegments(exercise) ==
    {i \in 1..Len(exercise.segments) :
        /\ exercise.segments[i].pinyin # ""
        /\ NotKnownAtScore(exercise.segments[i].chinese)}

\* C14: in candidate scoring a word is known iff it has progress and
\* nextReview > now, review iff it has progress and nextReview <= now (due
\* exactly at now is review), unknown iff it has no progress; and
\* unknownOrReviewWordCount is the number of word-bearing segments whose
\* word is not known.
C14_WordClassification ==
    scoring.ran =>
        \A k \in Ranks :
            LET c == scoring.candidates[k]
                status == c.breakdown.wordStatuses
            IN  /\ DOMAIN status = WordsOf(c.exercise)
                /\ \A w \in WordsOf(c.exercise) :
                      /\ status[w] = "known" <=>
                            (HasWord(progress.words, w)
                                /\ NextReviewOf(w) > scoring.scoreNow)
                      /\ status[w] = "review" <=>
                            (HasWord(progress.words, w)
                                /\ NextReviewOf(w) <= scoring.scoreNow)
                      /\ status[w] = "unknown" <=> ~HasWord(progress.words, w)
                /\ c.score.unknownOrReviewWordCount =
                       Cardinality(OpenSegments(c.exercise))
                /\ c.breakdown.unknownOrReviewWordCount =
                       c.score.unknownOrReviewWordCount

\* C14 witness: a candidate with a known word and a word due exactly at the
\* scorer's clock reading that stands in two segments: it counts twice
C14_Witness ==
    /\ scoring.ran
    /\ \E k \in Ranks :
          LET c == scoring.candidates[k]
          IN  /\ \E w \in WordsOf(c.exercise) :
                    /\ c.breakdown.wordStatuses[w] = "review"
                    /\ NextReviewOf(w) = scoring.scoreNow
              /\ \E w \in WordsOf(c.exercise) :
                    c.breakdown.wordStatuses[w] = "known"
              /\ Cardinality(WordsOf(c.exercise)) = 2
              /\ c.score.unknownOrReviewWordCount = 2

\* the 0-based positions of the ordered list that hold a word of one of the
\* exercise's segments bearing a word that is not known
OpenListPositions(exercise) ==
    {p - 1 : p \in {q \in 1..Len(orderedWordList) :
        \E i \in OpenSegments(exercise) :
            exercise.segments[i].chinese = orderedWordList[q]}}

\* C15: wordsNotInOrderedList counts only the exercise's unknown/review
\* words that the ordered list does not hold (known words never count),
\* largestOrderedWordIndex is the largest list position among the
\* unknown/review words the list holds (-1 when there is none), and
\* wordsNotInOrderedList <= unknownOrReviewWordCount.
C15_ListCounters ==
    scoring.ran =>
        \A k \in Ranks :
            LET c == scoring.candidates[k]
            IN  /\ c.score.wordsNotInOrderedList =
                       Cardinality({i \in OpenSegments(c.exercise) :
                           ~InSeq(orderedWordList, c.exercise.segments[i].chinese)})
                /\ OpenListPositions(c.exercise) = {} =>
                       c.score.largestOrderedWordIndex = -1
                /\ OpenListPositions(c.exercise) # {} =>
                       /\ c.score.largestOrderedWordIndex
                              \in OpenListPositions(c.exercise)
                       /\ \A p \in OpenListPositions(c.exercise) :
                              p <= c.score.largestOrderedWordIndex
                /\ c.score.wordsNotInOrderedList <= c.score.unknownOrReviewWordCount

\* C15 witness: a candidate with a known word that the list does not hold and
\* an unknown word that the list holds twice: nothing is counted as outside
\* the list, and the word's later list position is the largest index
C15_Witness ==
    /\ scoring.ran
    /\ \E k \in Ranks :
          LET c == scoring.candidates[k]
          IN  /\ \E w \in WordsOf(c.exercise) :
                    /\ c.breakdown.wordStatuses[w] = "known"
                    /\ ~InSeq(orderedWordList, w)
              /\ c.score.wordsNotInOrderedList = 0
              /\ Cardinality(OpenListPositions(c.exercise)) = 2
              /\ c.score.largestOrderedWordIndex = 2

Sign(x) == IF x < 0 THEN -1 ELSE IF x > 0 THEN 1 ELSE 0

\* the scored candidates the comparator is applied to
Scored == {scoring.candidates[k] : k \in Ranks}

\* C16: the comparator that ranks scored candidates is a total preorder
\* consistent with the documented key order: cmp(a,b) and cmp(b,a) have
\* opposite signs or are both 0, cmp is transitive, and two candidates with
\* different score tuples never compare as equal.
C16_ComparatorTotalPreorder ==
    scoring.ran =>
        /\ \A a, b \in Scored :
              /\ Sign(compareScored(a, b)) = -Sign(compareScored(b, a))
              /\ a.score # b.score => compareScored(a, b) # 0
              /\ compareScored(a, b) < 0 <=> LexLess(ScoreKey(a), ScoreKey(b))
        /\ \A a, b, c \in Scored :
              (compareScored(a, b) <= 0 /\ compareScored(b, c) <= 0)
                  => compareScored(a, c) <= 0

\* C16 witness: three candidates, two of which compare as equal while the
\* third ties with them on the first two keys and differs in a later one
C16_Witness ==
    /\ scoring.ran
    /\ \E a, b, c \in Scored :
          /\ a.index < b.index
          /\ compareScored(a, b) = 0
          /\ compareScored(b, c) < 0
          /\ KeysTie(ScoreKey(b), ScoreKey(c), 2)

----------------------------------------------------------------------------
(* Claims about new-word introduction, read off the latest selection *)

\* the positions of the ordered list whose word has no progress entry
NewListPositions ==
    {i \in 1..Len(orderedWordList) : ~HasWord(progress.words, orderedWordList[i])}

\* the first word of the ordered list without a progress entry
FirstNewListWord ==
    orderedWordList[CHOOSE i \in NewListPositions : \A j \in NewListPositions : i <= j]

InSomeExercise(w) == \E x \in 1..Len(exercises) : w \in WordsOf(exercises[x])

\* what getExerciseCandidates ranks first for w at the scorer's clock reading
TopCandidate(w) ==
    getExerciseCandidates(w, exercises, progress, orderedWordList,
                          selection.scoreNow)[1]

\* the latest selection returned the top-ranked candidate for w, with w as
\* its target
ReturnedTopCandidateFor(w) ==
    /\ ReturnedTarget
    /\ selection.result.targetWord = w
    /\ selection.result.index = TopCandidate(w).index
    /\ selection.result.exercise = exercises[TopCandidate(w).index + 1]

\* C18: when no eligible overdue word has an unlocked sentence and the first
\* ordered-list word without a progress entry occurs in some exercise, the
\* selector returns that word as targetWord, with the top-ranked
\* getExerciseCandidates result for it, whether or not that sentence is
\* unlocked.
C18_FirstNewListWordIntroduced ==
    ( /\ selection.ran
      /\ Reviewable = {}
      /\ NewListPositions # {}
      /\ InSomeExercise(FirstNewListWord) )
    => ReturnedTopCandidateFor(FirstNewListWord)

\* C18 witness: the first new list word stands after a list word that has
\* progress and before another new list word, and the returned sentence
\* holds a further word that is not known
C18_Witness ==
    /\ selection.ran
    /\ Reviewable = {}
    /\ NewListPositions # {}
    /\ InSomeExercise(FirstNewListWord)
    /\ HasWord(progress.words, orderedWordList[1])
    /\ InSomeExercise(orderedWordList[1])
    /\ Cardinality(NewListPositions) = 2
    /\ ReturnedTarget
    /\ ~UnlockedFor(selection.result.exercise, selection.result.targetWord)

\* no word of the ordered list without progress occurs in an exercise
ListYieldsNoNewWord ==
    \A i \in NewListPositions : ~InSomeExercise(orderedWordList[i])

\* the word-bearing segments of an exercise whose word has no progress
NewSegments(exercise) ==
    {i \in 1..Len(exercise.segments) :
        /\ exercise.segments[i].pinyin # ""
        /\ ~HasWord(progress.words, exercise.segments[i].chinese)}

\* the corpus positions of the exercises with a word without progress
ExercisesWithNewWord == {x \in 1..Len(exercises) : NewSegments(exercises[x]) # {}}

\* the first exercise of the corpus with a word without progress
FirstExerciseWithNewWord ==
    CHOOSE x \in ExercisesWithNewWord : \A y \in ExercisesWithNewWord : x <= y

\* the first word without progress of that exercise
FirstNewWordOfCorpus ==
    LET exercise == exercises[FirstExerciseWithNewWord]
        i == CHOOSE i \in NewSegments(exercise) : \A j \in NewSegments(exercise) : i <= j
    IN  exercise.segments[i].chinese

\* C19: when no review sentence is unlocked and the ordered list is empty or
\* yields no new word, the selector takes the first exercise of the corpus
\* that holds a word without progress, makes that exercise's first such word
\* the targetWord, and returns the top-scored candidate for that word.
C19_CorpusScanFallback ==
    ( /\ selection.ran
      /\ Reviewable = {}
      /\ ListYieldsNoNewWord
      /\ ExercisesWithNewWord # {} )
    => ReturnedTopCandidateFor(FirstNewWordOfCorpus)

\* C19 witness: the returned exercise is another one than the scanned one,
\* in a snapshot that holds progress for some word
C19_Witness ==
    /\ selection.ran
    /\ Reviewable = {}
    /\ ListYieldsNoNewWord
    /\ ExercisesWithNewWord # {}
    /\ ReturnedTarget
    /\ selection.result.index # FirstExerciseWithNewWord - 1
    /\ \E w \in SnapshotWords : HasWord(progress.words, w)

\* C20: a non-null result lacks targetWord if and only if no eligible overdue
\* word has an unlocked sentence and no exercise holds a word without
\* progress; in exactly that case the returned index is 0.
C20_TargetAbsentIffTerminalFallback ==
    (selection.ran /\ ~selection.result.isNull) =>
        /\ ~selection.result.hasTargetWord <=>
              (Reviewable = {} /\ ExercisesWithNewWord = {})
        /\ ~selection.result.hasTargetWord =>
              /\ selection.result.index = 0
              /\ selection.result.exercise = exercises[1]

\* C20 witness: the first exercise is returned without a target while a word
\* of the corpus is overdue, and no sentence is unlocked for it
C20_Witness ==
    /\ selection.ran
    /\ ~selection.result.isNull
    /\ ~selection.result.hasTargetWord
    /\ Len(exercises) >= 2
    /\ \E w \in SnapshotWords :
          /\ OverdueAtSelect(w)
          /\ InSomeExercise(w)
          /\ Len(orderedWordList) = 0
          /\ ~HasUnlockedSentence(w)

----------------------------------------------------------------------------
(* Claims about clock readings, change records and whole seconds *)

\* C21: within one selectNextExercise invocation the time is read once: the
\* overdue filter, the unlocked filter and the scoring passes classify every
\* word against the same now, so no word of the decision is known to one
\* step and due to another.
C21_OneClockReadingPerSelection ==
    ReturnedTarget =>
        \A w \in WordsOf(selection.result.exercise) :
            HasWord(progress.words, w) =>
                (KnownAtSelect(w) <=> isKnownWord(progress, w, selection.scoreNow))

\* C23: every change record of a failure has wasFailure = true,
\* wasEarlyReview = false, newIntervalSeconds = 30 and oldIntervalSeconds =
\* null, also for a word with a prior interval that was not yet due; every
\* change record of a success has wasFailure = false and oldIntervalSeconds
\* = the prior interval (null only for a new word).
C23_ChangeRecordFields ==
    /\ lastUpdate.op = "failure" =>
          /\ lastUpdate.change.wasFailure = TRUE
          /\ lastUpdate.change.wasEarlyReview = FALSE
          /\ lastUpdate.change.newIntervalSeconds = Seconds(MIN_INTERVAL_SECONDS)
          /\ lastUpdate.change.oldIntervalSeconds = Null
    /\ lastUpdate.op = "success" =>
          /\ lastUpdate.change.wasFailure = FALSE
          /\ lastUpdate.existing = NoState =>
                lastUpdate.change.oldIntervalSeconds = Null
          /\ lastUpdate.existing # NoState =>
                /\ lastUpdate.change.oldIntervalSeconds =
                       lastUpdate.existing.intervalSeconds
                /\ lastUpdate.change.oldIntervalSeconds # Null

\* C23 witness: a failure of a word that stood at the 7-day interval, before
\* the word was due
C23_Witness ==
    /\ lastUpdate.op = "failure"
    /\ lastUpdate.existing # NoState
    /\ lastUpdate.existing.intervalSeconds = firstTimeSuccessIntervalSeconds
    /\ lastUpdate.completedAt > lastUpdate.existing.lastReviewed
    /\ UpdateWasEarly

\* C28: every interval produced by a good or early successful review is a
\* whole number of seconds, in the stored entry and in the change record.
C28_IntervalsAreWholeSeconds ==
    SuccessOnExisting =>
        /\ lastUpdate.change.newIntervalSeconds % UnitsPerSecond = 0
        /\ UpdatedEntry.intervalSeconds % UnitsPerSecond = 0

----------------------------------------------------------------------------
(* Claims about the completion of an exercise *)

\* the change records of the history, oldest first
RECURSIVE ChangesIn(_)
ChangesIn(history) ==
    IF history = <<>> THEN <<>>
    ELSE Head(history).wordChanges \o ChangesIn(Tail(history))

\* the change records of word w, oldest first
ChangesOf(w) ==
    LET IsOfWord(change) == change.word = w
    IN  SelectSeq(ChangesIn(progress.history), IsOfWord)

\* the number of successes at the end of a sequence of change records
RECURSIVE TrailingSuccesses(_)
TrailingSuccesses(changes) ==
    IF changes = <<>> THEN 0
    ELSE IF changes[Len(changes)].wasFailure THEN 0
    ELSE 1 + TrailingSuccesses(SubSeq(changes, 1, Len(changes) - 1))

Completed == lastUpdate.op = "complete"

\* the history entry of the latest completion
LatestEntry == progress.history[Len(progress.history)]

\* the words of the exercise completed last
CompletedWords == getExerciseWords(lastUpdate.exercise)

\* C22: consecutiveSuccesses goes up by one on every success (first-time,
\* early or good) and back to 0 on every failure: a word's
\* consecutiveSuccesses is the number of its successes since its latest
\* failure, or since its entry was created.
C22_ConsecutiveSuccessesCount ==
    \A i \in 1..Len(progress.words) :
        progress.words[i].consecutiveSuccesses =
            TrailingSuccesses(ChangesOf(progress.words[i].word))

\* C22 witness: one word has failed and then succeeded once, another stands
\* at two successes, the second of them an early review
C22_Witness ==
    /\ \E i \in 1..Len(progress.words) :
          LET changes == ChangesOf(progress.words[i].word)
          IN  /\ Len(changes) = 2
              /\ changes[1].wasFailure
              /\ ~changes[2].wasFailure
              /\ progress.words[i].consecutiveSuccesses = 1
    /\ \E i \in 1..Len(progress.words) :
          LET changes == ChangesOf(progress.words[i].word)
          IN  /\ Len(changes) = 2
              /\ changes[2].wasEarlyReview
              /\ progress.words[i].consecutiveSuccesses = 2

\* C24 as stated: an entry is created only by the first successful recall,
\* so every word with an entry has had at least one success.
C24_EntryOnlyByFirstSuccess ==
    \A i \in 1..Len(progress.words) :
        \E k \in 1..Len(ChangesOf(progress.words[i].word)) :
            ~ChangesOf(progress.words[i].word)[k].wasFailure

\* C24 amended: an entry is created by the first recall of the word,
\* successful or hinted.  A word has an entry exactly when it was recalled in
\* a completed exercise, and a word that has only failed stands at 30 s with
\* no consecutive success.
C24_EntryByFirstRecall ==
    /\ \A i \in 1..Len(progress.words) :
          ChangesOf(progress.words[i].word) # <<>>
    /\ \A k \in 1..Len(ChangesIn(progress.history)) :
          HasWord(progress.words, ChangesIn(progress.history)[k].word)
    /\ \A i \in 1..Len(progress.words) :
          (\A k \in 1..Len(ChangesOf(progress.words[i].word)) :
              ChangesOf(progress.words[i].word)[k].wasFailure)
          => /\ progress.words[i].intervalSeconds = minIntervalSeconds
             /\ progress.words[i].consecutiveSuccesses = 0

\* C24 witness: the first completion of an exercise whose first word, new to
\* the learner, was hinted: the word has an entry and no success
C24_Witness ==
    /\ Completed
    /\ Len(progress.history) = 1
    /\ 0 \in lastUpdate.hinted
    /\ ~HasWord(lastUpdate.before.words, CompletedWords[1])
    /\ HasWord(progress.words, CompletedWords[1])
    /\ \A k \in 1..Len(ChangesOf(CompletedWords[1])) :
          ChangesOf(CompletedWords[1])[k].wasFailure

\* C25: a history entry has success = true iff no word of the exercise was
\* hinted, iff none of its change records is a failure; the word at an
\* input position gets a failure update exactly when that position was
\* hinted, and a success update otherwise.
C25_SuccessIffNoHint ==
    /\ \A h \in 1..Len(progress.history) :
          progress.history[h].success <=>
              \A k \in 1..Len(progress.history[h].wordChanges) :
                  ~progress.history[h].wordChanges[k].wasFailure
    /\ Completed =>
          /\ LatestEntry.success <=> lastUpdate.hinted = {}
          /\ Len(LatestEntry.wordChanges) = Len(CompletedWords)
          /\ \A i \in 0..(Len(CompletedWords) - 1) :
                /\ LatestEntry.wordChanges[i + 1].word = CompletedWords[i + 1]
                /\ LatestEntry.wordChanges[i + 1].wasFailure <=>
                       i \in lastUpdate.hinted

\* C25 witness: a sentence of two words and a full stop completed with a
\* hint at the second word only
C25_Witness ==
    /\ Completed
    /\ Len(lastUpdate.exercise.segments) > Len(CompletedWords)
    /\ lastUpdate.hinted = {1}
    /\ ~LatestEntry.success
    /\ ~LatestEntry.wordChanges[1].wasFailure
    /\ LatestEntry.wordChanges[2].wasFailure

\* C26: the history is append-only.  addExerciseToHistory returns the input
\* history followed by exactly one new entry, an exerciseLastSeen that
\* differs at the completed index only and the same words; the history is
\* as long as the number of completions.
C26_HistoryAppendOnly ==
    /\ Len(progress.history) = nUpdates
    /\ Completed =>
          /\ Len(progress.history) = Len(lastUpdate.updated.history) + 1
          /\ SubSeq(progress.history, 1, Len(progress.history) - 1) =
                 lastUpdate.updated.history
          /\ lastUpdate.updated.history = lastUpdate.before.history
          /\ LatestEntry.exerciseIndex = lastUpdate.index
          /\ LatestEntry.wordChanges = lastUpdate.wordChanges
          /\ progress.words = lastUpdate.updated.words
          /\ DOMAIN progress.exerciseLastSeen =
                 DOMAIN lastUpdate.updated.exerciseLastSeen \cup {lastUpdate.index}
          /\ \A x \in DOMAIN lastUpdate.updated.exerciseLastSeen \ {lastUpdate.index} :
                 progress.exerciseLastSeen[x] =
                     lastUpdate.updated.exerciseLastSeen[x]

\* C26 witness: the second completion, of another exercise than the first
C26_Witness ==
    /\ Completed
    /\ Len(progress.history) = 2
    /\ progress.history[1].exerciseIndex # progress.history[2].exerciseIndex
    /\ progress.history[1] = lastUpdate.before.history[1]

\* C27: the word updates of a completion return a progress in which only
\* the entries of the updated words differ: every other entry, the history,
\* exerciseLastSeen and dailyMetricsHistory are those of the input, and no
\* entry is removed.
C27_UpdateFrame ==
    Completed =>
        LET before == lastUpdate.before
            updated == lastUpdate.updated
            touched == {CompletedWords[i] : i \in 1..Len(CompletedWords)}
        IN  /\ updated.history = before.history
            /\ updated.exerciseLastSeen = before.exerciseLastSeen
            /\ updated.dailyMetricsHistory = before.dailyMetricsHistory
            /\ Len(updated.words) >= Len(before.words)
            /\ \A i \in 1..Len(before.words) :
                  /\ updated.words[i].word = before.words[i].word
                  /\ before.words[i].word \notin touched =>
                         updated.words[i] = before.words[i]
            /\ \A i \in (Len(before.words) + 1)..Len(updated.words) :
                  updated.words[i].word \in touched

\* C27 witness: a completion of a one-word sentence, which is a single word
\* update, on a progress that holds entries of other words and a history
C27_Witness ==
    /\ Completed
    /\ Len(CompletedWords) = 1
    /\ lastUpdate.before.history # <<>>
    /\ \E i \in 1..Len(lastUpdate.before.words) :
          lastUpdate.before.words[i].word # CompletedWords[1]
    /\ \E i \in DOMAIN lastUpdate.before.exerciseLastSeen :
          i # lastUpdate.index

\* C29: the completion uses the caller's completion time only: the history
\* entry's completedAt and exerciseLastSeen of the completed index are the
\* completedAt that became lastReviewed of the exercise's words.
C29_OneCompletionTime ==
    Completed =>
        /\ LatestEntry.completedAt = lastUpdate.completedAt
        /\ progress.exerciseLastSeen[lastUpdate.index] = lastUpdate.completedAt
        /\ \A i \in 1..Len(CompletedWords) :
              WordEntry(progress.words, CompletedWords[i]).lastReviewed =
                  LatestEntry.completedAt

\* the update of word w of the completed exercise, hinted or not, applied
\* once to the progress before the completion
OneTransition(w, hinted) ==
    LET pinyin == getPinyinForWord(lastUpdate.exercise, w)
    IN  IF hinted
        THEN updateWordFailure(w, pinyin, lastUpdate.before,
                               lastUpdate.completedAt)
        ELSE updateWordSuccess(w, pinyin, lastUpdate.before,
                               lastUpdate.completedAt)

\* C30: a completion produces exactly one change record per distinct word of
\* the exercise, also for a word that occurs in several segments, and each
\* word's stored state is one transition away from its state before.
C30_OneChangePerWord ==
    Completed =>
        /\ \A i, j \in 1..Len(LatestEntry.wordChanges) :
              i # j => LatestEntry.wordChanges[i].word #
                           LatestEntry.wordChanges[j].word
        /\ {LatestEntry.wordChanges[i].word :
                i \in 1..Len(LatestEntry.wordChanges)} =
           {CompletedWords[i] : i \in 1..Len(CompletedWords)}
        /\ \A i \in 1..Len(LatestEntry.wordChanges) :
              LET change == LatestEntry.wordChanges[i]
              IN  WordEntry(progress.words, change.word) =
                      WordEntry(OneTransition(change.word,
                                              change.wasFailure).progress.words,
                                change.word)

----------------------------------------------------------------------------
(* Claims about the due instant, words without a sentence and the result *)

\* the instant at which the word of the latest update was due
DueInstantOfUpdate ==
    lastUpdate.existing.lastReviewed + lastUpdate.existing.intervalSeconds

\* C35: a successful recall exactly at the due instant is a good review:
\* wasEarlyReview is false and the interval is the clamped elapsed time
\* times 5; wasEarlyReview is true iff completedAt lies strictly before the
\* due instant.
C35_DueInstantIsGoodReview ==
    SuccessOnExisting =>
        /\ lastUpdate.change.wasEarlyReview <=>
               lastUpdate.completedAt < DueInstantOfUpdate
        /\ lastUpdate.completedAt = DueInstantOfUpdate =>
               /\ ~lastUpdate.change.wasEarlyReview
               /\ lastUpdate.change.newIntervalSeconds =
                      Max2(minIntervalSeconds,
                           Min2(GOOD_REVIEW_MULTIPLIER * ElapsedOfUpdate,
                                maxIntervalSeconds))

\* C35 witness: a success exactly 30 s after the failure that set the word
\* to 30 s, giving 150 s
C35_Witness ==
    /\ SuccessOnExisting
    /\ lastUpdate.completedAt = DueInstantOfUpdate
    /\ lastUpdate.existing.intervalSeconds = minIntervalSeconds
    /\ UpdatedEntry.intervalSeconds = Seconds(150)

\* the positions of the ordered list whose word has no progress and occurs
\* in some exercise
TeachableNewListPositions == {i \in NewListPositions : InSomeExercise(orderedWordList[i])}

\* the first word of the ordered list that has no progress and occurs in
\* some exercise
FirstTeachableNewListWord ==
    orderedWordList[CHOOSE i \in TeachableNewListPositions :
                        \A j \in TeachableNewListPositions : i <= j]

\* the eligible overdue words that occur in no exercise
OverdueWithoutSentence == {w \in SnapshotWords : EligibleOverdue(w) /\ ~InSomeExercise(w)}

\* C36: a word that occurs in no exercise never blocks selection.  The
\* new-word tier passes over list words without progress that have no
\* candidate and targets the first one that occurs in an exercise; the
\* review tier passes over overdue words without a candidate; for a
\* non-empty corpus the result is not null.
C36_WordWithoutSentenceNeverBlocks ==
    selection.ran =>
        /\ (Reviewable = {} /\ TeachableNewListPositions # {}) =>
               ReturnedTopCandidateFor(FirstTeachableNewListWord)
        /\ (Reviewable # {} /\ OverdueWithoutSentence # {}) =>
               /\ ReturnedTarget
               /\ selection.result.targetWord \in Reviewable
        /\ ( \/ OverdueWithoutSentence # {}
             \/ \E i \in NewListPositions : ~InSomeExercise(orderedWordList[i]) )
           => (Len(exercises) > 0 => ~selection.result.isNull)

\* C36 witness: the first list word has no progress and occurs in no
\* exercise, and the second list word, new and not the first new word of
\* the corpus, is the target
C36_Witness ==
    /\ selection.ran
    /\ Len(orderedWordList) = 2
    /\ ~HasWord(progress.words, orderedWordList[1])
    /\ ~InSomeExercise(orderedWordList[1])
    /\ ReturnedTarget
    /\ selection.result.targetWord = orderedWordList[2]
    /\ NewSegments(exercises[1]) # {}
    /\ exercises[1].segments[CHOOSE i \in NewSegments(exercises[1]) :
                                \A j \in NewSegments(exercises[1]) : i <= j].chinese
          # orderedWordList[2]

\* C37: a non-null result has 0 <= index < exercises.length and exercise =
\* exercises[index]; a targetWord, when present, is a word-bearing segment
\* of the returned exercise.
C37_ResultWellFormed ==
    (selection.ran /\ ~selection.result.isNull) =>
        /\ selection.result.index \in 0..(Len(exercises) - 1)
        /\ selection.result.exercise = exercises[selection.result.index + 1]
        /\ selection.result.hasTargetWord =>
               \E i \in 1..Len(selection.result.exercise.segments) :
                   /\ selection.result.exercise.segments[i].chinese =
                          selection.result.targetWord
                   /\ selection.result.exercise.segments[i].pinyin # ""

\* C37 witness: the last of three exercises is returned for a review target
\* that is not its first segment
C37_Witness ==
    /\ ReturnedTarget
    /\ Len(exercises) = 3
    /\ selection.result.index = 2
    /\ selection.result.targetWord \in Reviewable
    /\ selection.result.exercise.segments[1].chinese # selection.result.targetWord

\* the selector's result on the progress after the latest completion, with
\* its clock readings at that completion's completedAt
SelectionAtCompletion ==
    selectNextExercise(exercises, progress, orderedWordList,
                       lastUpdate.completedAt, lastUpdate.completedAt)

\* C39: right after a completion at completedAt every word of the completed
\* exercise has nextReview >= completedAt + 30 s, so a selection evaluated
\* at completedAt classifies each of them as known and returns none of them
\* as target; neither does the selection that displays the next exercise.
C39_CompletedWordsAreKnown ==
    Completed =>
        \A i \in 1..Len(CompletedWords) :
            /\ WordEntry(progress.words, CompletedWords[i]).nextReview >=
                   lastUpdate.completedAt + Seconds(MIN_INTERVAL_SECONDS)
            /\ isKnownWord(progress, CompletedWords[i], lastUpdate.completedAt)
            /\ ~ /\ ~SelectionAtCompletion.isNull
                 /\ SelectionAtCompletion.hasTargetWord
                 /\ SelectionAtCompletion.targetWord = CompletedWords[i]
            /\ ~ /\ ~selection.result.isNull
                 /\ selection.result.hasTargetWord
                 /\ selection.result.targetWord = CompletedWords[i]

\* C39 witness: every word of a sentence of two or more words was hinted
\* (each due 30 s later) and the next exercise, selected half a second
\* after completedAt, has a target
C39_Witness ==
    /\ Completed
    /\ Len(CompletedWords) >= 2
    /\ \A i \in 0..(Len(CompletedWords) - 1) : i \in lastUpdate.hinted
    /\ selection.selectNow > lastUpdate.completedAt
    /\ selection.result.hasTargetWord
    /\ SelectionAtCompletion.hasTargetWord

----------------------------------------------------------------------------
(* Claims about new-word introduction *)

\* the words of the corpus without an entry in prog
CorpusWordsWithout(prog) ==
    {w \in UNION {WordsOf(exercises[x]) : x \in 1..Len(exercises)} :
        ~HasWord(prog.words, w)}

\* the selector's terminal fallback: the first exercise, no target
TerminalFallback ==
    /\ ~selection.result.isNull
    /\ selection.result.index = 0
    /\ ~selection.result.hasTargetWord

\* a completion of an exercise that was shown for a target word gives that
\* word an entry and leaves fewer corpus words without progress
IntroductionAdvances ==
    (Completed /\ lastUpdate.shown.hasTargetWord) =>
        /\ ~HasWord(lastUpdate.before.words, lastUpdate.shown.targetWord)
        /\ HasWord(progress.words, lastUpdate.shown.targetWord)
        /\ Cardinality(CorpusWordsWithout(progress)) <
               Cardinality(CorpusWordsWithout(lastUpdate.before))

\* C40: from a progress in which no word is due, a learner who keeps
\* completing the returned exercise without hints, before any word falls
\* due, gives every target word an entry, the number of corpus words
\* without progress going down each time, and after finitely many
\* completions the selector returns the terminal fallback (index 0, no
\* targetWord) for good.
C40_IntroductionTerminates ==
    /\ [](IntroductionAdvances)
    /\ <>[](TerminalFallback)

\* C40 witness: the third completion of a run introduced the last word
\* without progress and the selector has reached the terminal fallback
C40_Witness ==
    /\ Completed
    /\ nUpdates = 3
    /\ lastUpdate.shown.hasTargetWord
    /\ lastUpdate.before.history # <<>>
    /\ CorpusWordsWithout(progress) = {}
    /\ TerminalFallback

----------------------------------------------------------------------------
(* Claims about the exercise input state machine, read off the latest call *)

\* the latest call was requestHint
HintRequested == input # NoInput /\ input.op = "requestHint"

\* the latest call was updateInput
InputUpdated == input # NoInput /\ input.op = "updateInput"

\* the latest updateInput reported neither a segment nor the exercise
NothingReported ==
    /\ input.segmentCompleted = Null
    /\ ~input.exerciseCompleted

\* C31: requestHint on a state whose hint is not shown and that is not
\* complete shows the hint, clears inputValue, adds the current input index
\* and no other index to hintedIndices and leaves currentInputIndex,
\* totalInputs and isComplete as they were; when the hint is already shown
\* it returns the state unchanged.
C31_RequestHint ==
    HintRequested =>
        /\ (~input.before.showHint /\ ~input.before.isComplete) =>
              /\ input.state.showHint
              /\ input.state.inputValue = <<>>
              /\ input.state.hintedIndices =
                     input.before.hintedIndices \cup {input.before.currentInputIndex}
              /\ input.state.currentInputIndex = input.before.currentInputIndex
              /\ input.state.totalInputs = input.before.totalInputs
              /\ input.state.isComplete = input.before.isComplete
        /\ input.before.showHint => input.state = input.before

\* C31 witness: a hint was requested on the second segment with text typed,
\* an earlier hint on the first segment being remembered
C31_Witness ==
    /\ HintRequested
    /\ ~input.before.showHint
    /\ ~input.before.isComplete
    /\ input.before.inputValue # <<>>
    /\ input.before.currentInputIndex = 1
    /\ input.before.hintedIndices = {0}
    /\ input.state.hintedIndices = {0, 1}

\* the typed value of the latest updateInput equals the expected pinyin up to
\* letter case and whitespace
TypedMatchesExpected ==
    normalizePinyin(input.newValue) = normalizePinyin(input.expected)

\* what updateInput does to a state by the typed value and the segment
UpdateInputContract ==
    IF ~TypedMatchesExpected
    THEN /\ input.state = [input.before EXCEPT !.inputValue = input.newValue]
         /\ NothingReported
    ELSE IF input.before.currentInputIndex < input.before.totalInputs - 1
    THEN /\ input.state =
                [input.before EXCEPT
                    !.currentInputIndex = input.before.currentInputIndex + 1,
                    !.inputValue = <<>>,
                    !.showHint = FALSE]
         /\ input.segmentCompleted = input.before.currentInputIndex
         /\ ~input.exerciseCompleted
    ELSE /\ input.state.isComplete
         /\ input.state.currentInputIndex = input.before.currentInputIndex
         /\ input.state.hintedIndices = input.before.hintedIndices
         /\ input.state.totalInputs = input.before.totalInputs
         /\ input.exerciseCompleted

\* C32 as stated, for every state: updateInput with a value equal to the
\* expected pinyin after normalization, on a segment that is not the last,
\* raises currentInputIndex by exactly one, clears inputValue, resets
\* showHint and reports segmentCompleted = the old index without
\* exerciseCompleted; on the last segment it sets isComplete, keeps the
\* index and reports exerciseCompleted; a value that does not match changes
\* inputValue only and reports nothing.
C32_UpdateInputOnAnyState ==
    InputUpdated => UpdateInputContract

\* C32 amended: updateInput on a state that is not complete does the above;
\* a complete state is returned as it is, with nothing reported.
C32_UpdateInputWhileIncomplete ==
    InputUpdated =>
        IF input.before.isComplete
        THEN input.state = input.before /\ NothingReported
        ELSE UpdateInputContract

\* C32 witness: with the hint shown on the first of several segments, a
\* value that differs from the expected pinyin in case and spacing advanced
\* to the second segment
C32_Witness ==
    /\ InputUpdated
    /\ input.before.showHint
    /\ input.before.currentInputIndex = 0
    /\ input.before.totalInputs > 1
    /\ input.newValue = <<"n", " ", "I">>
    /\ input.expected = <<"N", "i">>
    /\ input.state.currentInputIndex = 1
    /\ input.segmentCompleted = 0

\* the latest call was made on a state that was complete
CalledWhenComplete ==
    /\ HintRequested \/ InputUpdated
    /\ input.before.isComplete

\* C33: isComplete is absorbing: on a state that is complete every
\* requestHint and every updateInput, whatever the value, returns the state
\* unchanged and reports neither segmentCompleted nor exerciseCompleted, so
\* exerciseCompleted is reported at most once between two resets.
C33_CompleteIsAbsorbing ==
    /\ CalledWhenComplete =>
          /\ input.state = input.before
          /\ NothingReported
    /\ input # NoInput => input.reports <= 1

\* C33 witness: the value that completed the exercise was typed again on the
\* complete state, after a hint had been asked for on it
C33_Witness ==
    /\ InputUpdated
    /\ input.before.isComplete
    /\ TypedMatchesExpected
    /\ input.before.totalInputs = MaxInputs
    /\ input.before.hintedIndices # {}
    /\ input.reports = 1

\* the input segments of the exercise being answered, by index
SegmentIndices == 0..(input.state.totalInputs - 1)

\* the latest call kept every remembered hint
HintsKept ==
    (HintRequested \/ InputUpdated) =>
        input.before.hintedIndices \subseteq input.state.hintedIndices

\* each rendered segment shows its hint by its place relative to the
\* current segment
HintsDisplayed ==
    \A i \in SegmentIndices :
        /\ i < input.state.currentInputIndex =>
              /\ input.display[i].visualState = "completed"
              /\ input.display[i].showHint = (i \in input.state.hintedIndices)
        /\ i = input.state.currentInputIndex =>
              /\ input.display[i].visualState = "current"
              /\ input.display[i].showHint = input.state.showHint
        /\ i > input.state.currentInputIndex =>
              /\ input.display[i].visualState = "pending"
              /\ input.display[i].showHint = FALSE

\* C34: a hint is remembered per segment: an index in hintedIndices stays
\* there through every later requestHint and updateInput until a reset; a
\* completed segment (index below currentInputIndex) is displayed with its
\* hint iff its index is in hintedIndices, a pending segment without hint,
\* and the current segment with the state's showHint.
C34_HintRememberedPerSegment ==
    input # NoInput => (HintsKept /\ HintsDisplayed)

\* C34 witness: the first segment was answered with a hint and the second
\* without; on the third, no hint shown, the first is displayed with its
\* hint and the second without
C34_Witness ==
    /\ InputUpdated
    /\ input.state.currentInputIndex = 2
    /\ ~input.state.showHint
    /\ ~input.state.isComplete
    /\ input.state.hintedIndices = {0}
    /\ input.display[0].showHint
    /\ ~input.display[1].showHint

\* the state of the exercise being answered
InputState == input.state

\* C38: in every state reached from createInitialState(n), n >= 1, through
\* requestHint and updateInput: 0 <= currentInputIndex <= n - 1;
\* hintedIndices is a subset of 0..currentInputIndex; a shown hint is a
\* remembered hint of the current index; a complete exercise stands on its
\* last index n - 1; and the exercise is complete exactly when n matching
\* inputs have been made, each earlier matching input moving one index on.
C38_InputStateInvariant ==
    input # NoInput =>
        /\ InputState.totalInputs = Len(input.segments)
        /\ InputState.currentInputIndex >= 0
        /\ InputState.currentInputIndex <= InputState.totalInputs - 1
        /\ InputState.hintedIndices \subseteq 0..InputState.currentInputIndex
        /\ InputState.showHint => InputState.currentInputIndex \in InputState.hintedIndices
        /\ InputState.isComplete =>
              InputState.currentInputIndex = InputState.totalInputs - 1
        /\ InputState.isComplete <=> input.matched = InputState.totalInputs
        /\ ~InputState.isComplete => input.matched = InputState.currentInputIndex

\* C38 witness: the longest exercise was completed by its last matching
\* input, every segment having been answered with a hint
C38_Witness ==
    /\ InputUpdated
    /\ ~input.before.isComplete
    /\ InputState.isComplete
    /\ InputState.totalInputs = MaxInputs
    /\ InputState.currentInputIndex = MaxInputs - 1
    /\ InputState.hintedIndices = 0..(MaxInputs - 1)
    /\ InputState.showHint
    /\ input.matched = MaxInputs

====
